---- MODULE Spec2Model ----
(***************************************************************************)
(* A model of the scripts of jokyv/scripts that carry logic of their own:  *)
(*   - the nix flake freshness checkers (src/nix_flake_health/main.py and  *)
(*     src/bin/flake-freshness.py): the TTL file cache, the package        *)
(*     version lookups, compare_versions and main;                         *)
(*   - the bookmark picker (src/bin/bookmarks.py): the Brave bookmark      *)
(*     extraction and the fuzzel selection;                                *)
(*   - the git utility (src/bin/test.py and its older form                 *)
(*     src/bin/git_util.py): auto_commit, status_all_git_dirs,             *)
(*     create_and_push_gh_repo and main's exit status;                     *)
(*   - the release script (src/bin/release.py): suggest_next_version and   *)
(*     the steps of main.                                                  *)
(* Python strings are sequences of one-character strings.                  *)
(***************************************************************************)
EXTENDS Integers, Sequences, FiniteSets, TLC

VARIABLES
    \* ---- the flake tools: cache, lookups, main ----
    pc,             \* "idle"; "returned": a call has just returned and `last` and
                    \* `calls` show what it did; or where main stands: "fetch_current",
                    \* "fetch_latest", "check_packages", "exited"
    tool,           \* the script that runs: "health" (nix_flake_health/main.py) or
                    \* "freshness" (bin/flake-freshness.py); each has its own cache directory
    now,            \* the wall clock, in seconds
    ticks,          \* how often the clock has advanced
    cache,          \* the cache directory: file name -> NoFile or [text, mtime]
    written,        \* history: per key string, the most recent write_cache(key, value)
    last,           \* the last call made: [fn, args, ret]
    calls,          \* what that call did, in order: its read_cache, write_cache and nix eval calls
    run,            \* the run of main in progress: its arguments, what it found and its results
    exit_code,      \* the exit status of the process once pc = "exited"
    \* ---- compare_versions (both flake tools) ----
    cv_current,     \* the argument current
    cv_latest,      \* the argument latest
    cv_tool,        \* which script's compare_versions ran ("none" before the call)
    cv_result,      \* what it returned ("none" before the call)
    \* ---- bookmarks.py ----
    bm_pc,          \* "start", "extracted", "selected", "opened" (the browser has run
                    \* and main has returned), "exited" (the run ended without it)
    bm_browser,     \* args.browser: "firefox" or "brave"
    bm_data,        \* the parsed Brave Bookmarks file
    bm_bookmarks,   \* the list of (title, url) pairs
    bm_pick,        \* history: the line of the selector the user picked (0: none)
    bm_selected,    \* what show_bookmarks_with_fuzzel returned
    bm_argv,        \* the command line of the browser that was started
    bm_started,     \* the programs the run has started
    bm_stderr,      \* what the run has printed to stderr
    bm_exit,        \* <<>> while the process runs, then <<its exit status>>
    bm_raised,      \* history: the exception that ended the run, [by, exc]; <<>> if none
    \* ---- the git utility: test.py and git_util.py ----
    gt_pc,          \* "idle", the function that runs ("auto_commit", "status_all_git_dirs",
                    \* "create_and_push_gh_repo"), "returned" or "exited"
    gt_file,        \* the script that runs: "test.py" or "git_util.py"
    gt_repos,       \* the directories on disk: a sequence of [exists, large, changes]
    gt_dirs,        \* the list the running loop walks: indices into gt_repos
    gt_i,           \* the position of the loop in gt_dirs
    gt_log,         \* the commands run so far: [cwd, cmd, outcome]
    gt_results,     \* the local list `results`
    gt_changes_exist, \* the local flag `changes_exist`
    gt_ret,         \* <<>>, or <<the value the function returned>>
    gt_exit,        \* <<>> while the process runs, then <<its exit status>>
    \* ---- release.py ----
    rl_pc,          \* "idle"; "suggest" and "suggested" around a call of
                    \* suggest_next_version; where main stands: "start", "latest_tag",
                    \* "release_type", "confirm", "release", "returned", "exited"
    rl_latest_tag,  \* latest_tag: None or a string
    rl_release_type, \* release_type
    rl_version,     \* version, what suggest_next_version returned
    rl_answers,     \* history: the answers to the release-type prompt, normalised
    rl_confirm,     \* <<>>, or <<the answer to the confirmation prompt, normalised>>
    rl_log,         \* the commands run after the confirmation: [cmd, version, outcome]
    rl_exit,        \* <<>> while the process runs, then <<its exit status>>
    \* ---- flake-freshness.py: extract_input_info ----
    fi_pc,          \* "idle", "extract", "returned"
    fi_lines,       \* history: what the lines of flake.nix say, [kind, name, branch]
    fi_content,     \* the text of flake.nix
    fi_metadata,    \* how nix flake metadata --json answers: [outcome, locks]
    fi_info         \* the dictionary extract_input_info returned

flakeVars == <<pc, tool, now, ticks, cache, written, last, calls>>

mainVars == <<run, exit_code>>

cvVars == <<cv_current, cv_latest, cv_tool, cv_result>>

bmVars == <<bm_pc, bm_browser, bm_data, bm_bookmarks, bm_pick, bm_selected, bm_argv,
           bm_started, bm_stderr, bm_exit, bm_raised>>

gtVars == <<gt_pc, gt_file, gt_repos, gt_dirs, gt_i, gt_log, gt_results, gt_changes_exist,
           gt_ret, gt_exit>>

\* The scripts that share nothing with the flake tools and the bookmark picker.
rlVars == <<rl_pc, rl_latest_tag, rl_release_type, rl_version, rl_answers, rl_confirm,
           rl_log, rl_exit>>

fiVars == <<fi_pc, fi_lines, fi_content, fi_metadata, fi_info>>

scriptVars == <<gtVars, rlVars, fiVars>>

vars == <<flakeVars, mainVars, cvVars, bmVars, scriptVars>>

\* What the cache functions and the lookups leave alone when called on their own.
nonFlakeVars == <<mainVars, cvVars, bmVars, scriptVars>>

\* What a step of main leaves alone.
nonMainVars == <<cvVars, bmVars, scriptVars>>

\* What a compare_versions call leaves alone.
nonCompareVars == <<flakeVars, mainVars, bmVars, scriptVars>>

\* What bookmarks.py leaves alone.
nonBookmarkVars == <<flakeVars, mainVars, cvVars, scriptVars>>

\* What the git utility leaves alone.
nonGitVars == <<flakeVars, mainVars, cvVars, bmVars, rlVars, fiVars>>

\* What release.py leaves alone.
nonReleaseVars == <<flakeVars, mainVars, cvVars, bmVars, gtVars, fiVars>>

\* What extract_input_info leaves alone.
nonInputVars == <<flakeVars, mainVars, cvVars, bmVars, gtVars, rlVars>>

(***************************************************************************)
(* Strings                                                                 *)
(***************************************************************************)

\* Every string over the alphabet chars of length at most n.
StringsUpTo(chars, n) == UNION { [1..k -> chars] : k \in 0..n }

\* s[from..] in Python's slice notation with a 0-based start: s[from:].
Drop(s, from) == SubSeq(s, from + 1, Len(s))

\* s.replace(a, b) for one-character a and b.
Replace(s, a, b) == [i \in 1..Len(s) |-> IF s[i] = a THEN b ELSE s[i]]

Whitespace == {" ", "\n", "\t"}

\* s.strip(): leading and trailing whitespace removed.
RECURSIVE LStrip(_)
LStrip(s) == IF s # <<>> /\ s[1] \in Whitespace THEN LStrip(Tail(s)) ELSE s

RECURSIVE RStrip(_)
RStrip(s) ==
    IF s # <<>> /\ s[Len(s)] \in Whitespace THEN RStrip(SubSeq(s, 1, Len(s) - 1)) ELSE s

Strip(s) == LStrip(RStrip(s))

\* Python's None: no string of characters (a string is a sequence of
\* one-character strings).
None == <<"None">>

\* The sentinel get_package_version returns for a package nix could not evaluate.
NotFound == <<"n", "o", "t", " ", "f", "o", "u", "n", "d">>

\* The value main gives a package whose input has no locked revision.
NoLock == <<"n", "o", " ", "l", "o", "c", "k">>

(***************************************************************************)
(* The TTL file cache (identical in both flake tools)                      *)
(***************************************************************************)

\* CACHE_TTL_HOURS of main.py; flake-freshness.py writes the product, 3600.
CACHE_TTL_HOURS == 1

\* CONFIG.cache["ttl"], in seconds.
CacheTtl == CACHE_TTL_HOURS * 3600

\* json.dump of a str: the characters between double quotes, with the double
\* quote, the backslash and the newline escaped.
RECURSIVE JsonEscape(_)
JsonEscape(s) ==
    IF s = <<>> THEN <<>>
    ELSE (CASE s[1] = "\"" -> <<"\\", "\"">>
            [] s[1] = "\\" -> <<"\\", "\\">>
            [] s[1] = "\n" -> <<"\\", "n">>
            [] OTHER -> <<s[1]>>) \o JsonEscape(Tail(s))

JsonDump(value) == <<"\"">> \o JsonEscape(value) \o <<"\"">>

RECURSIVE JsonUnescape(_)
JsonUnescape(s) ==
    IF s = <<>> THEN <<>>
    ELSE IF s[1] = "\\" /\ Len(s) >= 2
    THEN <<(IF s[2] = "n" THEN "\n" ELSE s[2])>> \o JsonUnescape(Drop(s, 2))
    ELSE <<s[1]>> \o JsonUnescape(Tail(s))

\* What json.load raises on text that is no JSON document.
JSONDecodeError == <<"JSONDecodeError">>

\* json.load of a file this program wrote: a JSON string, or an error.
JsonLoad(text) ==
    IF Len(text) >= 2 /\ text[1] = "\"" /\ text[Len(text)] = "\""
    THEN JsonUnescape(SubSeq(text, 2, Len(text) - 1))
    ELSE JSONDecodeError

JsonSuffix == <<".", "j", "s", "o", "n">>

\* get_cache_path: the file name inside get_cache_dir().
get_cache_path(key) == Replace(Replace(key, "/", "_"), ":", "_") \o JsonSuffix

\* A path at which no file exists.
NoFile == [exists |-> FALSE, text |-> <<>>, mtime |-> 0]

\* Mutant of is_cache_valid: an entry exactly ttl seconds old still counts as valid.
is_cache_valid_inclusive(files, cache_path, t) ==
    IF ~files[cache_path].exists THEN FALSE
    ELSE LET age == t - files[cache_path].mtime
         IN  age <= CacheTtl

\* is_cache_valid at time t.
is_cache_valid(files, cache_path, t) ==
    IF ~files[cache_path].exists THEN FALSE
    ELSE LET age == t - files[cache_path].mtime
         IN  age < CacheTtl

\* read_cache at time t.
read_cache(files, key, t) ==
    LET cache_path == get_cache_path(key)
    IN  IF is_cache_valid(files, cache_path, t)
        THEN LET loaded == JsonLoad(files[cache_path].text)
             IN  IF loaded = JSONDecodeError THEN None ELSE loaded
        ELSE None

\* write_cache at time t: the file is created or overwritten.
write_cache(files, key, value, t) ==
    [files EXCEPT ![get_cache_path(key)] =
        [exists |-> TRUE, text |-> JsonDump(value), mtime |-> t]]

(***************************************************************************)
(* A call in progress: st = [files, calls], the cache directory and the    *)
(* log of what the call has done so far.                                   *)
(***************************************************************************)

DoRead(st, key, t) ==
    [st EXCEPT !.calls = Append(@,
        [fn |-> "read_cache", key |-> key, file |-> st.files[get_cache_path(key)],
         at |-> t, result |-> read_cache(st.files, key, t)])]

DoWrite(st, key, value, t) ==
    [files |-> write_cache(st.files, key, value, t),
     calls |-> Append(st.calls,
        [fn |-> "write_cache", key |-> key, value |-> value, at |-> t])]

\* What the last call logged in st returned.
LastResult(st) == st.calls[Len(st.calls)].result

\* run_command(["nix", "eval", ...]): cmd is what is evaluated, out = [exit_code, ...]
\* is what nix answered.
DoNix(st, cmd, out) ==
    [st EXCEPT !.calls = Append(@, [fn |-> "nix_eval", cmd |-> cmd, out |-> out])]

(***************************************************************************)
(* get_package_version / get_batch_package_versions                        *)
(***************************************************************************)

\* f"{flake_ref}-{input_name}-{package}"
cache_key(flake_ref, input_name, package) ==
    flake_ref \o <<"-">> \o input_name \o <<"-">> \o package

\* Mutant of get_package_version: the version found is stored whether or not the
\* cache is in use.
get_package_version_alwaysStore(st, flake_ref, input_name, package, use_cache, nix, t) ==
    LET key == cache_key(flake_ref, input_name, package)
        st1 == IF use_cache THEN DoRead(st, key, t) ELSE st
        cached == IF use_cache THEN LastResult(st1) ELSE None
    IN  IF use_cache /\ cached # None
        THEN [st |-> st1, version |-> cached, from_cache |-> TRUE]
        ELSE LET out == nix[package]
                 st2 == DoNix(st1, [kind |-> "expr", flake_ref |-> flake_ref,
                                    input_name |-> input_name,
                                    packages |-> <<package>>], out)
                 version == IF out.exit_code = 0 THEN Strip(out.stdout) ELSE NotFound
                 st3 == IF version # NotFound
                        THEN DoWrite(st2, key, version, t) ELSE st2
             IN  [st |-> st3, version |-> version, from_cache |-> FALSE]

\* Mutant of get_package_version: with the cache in use whatever was found is
\* stored, the "not found" sentinel too.
get_package_version_storesSentinel(st, flake_ref, input_name, package, use_cache, nix, t) ==
    LET key == cache_key(flake_ref, input_name, package)
        st1 == IF use_cache THEN DoRead(st, key, t) ELSE st
        cached == IF use_cache THEN LastResult(st1) ELSE None
    IN  IF use_cache /\ cached # None
        THEN [st |-> st1, version |-> cached, from_cache |-> TRUE]
        ELSE LET out == nix[package]
                 st2 == DoNix(st1, [kind |-> "expr", flake_ref |-> flake_ref,
                                    input_name |-> input_name,
                                    packages |-> <<package>>], out)
                 version == IF out.exit_code = 0 THEN Strip(out.stdout) ELSE NotFound
                 st3 == IF use_cache
                        THEN DoWrite(st2, key, version, t) ELSE st2
             IN  [st |-> st3, version |-> version, from_cache |-> FALSE]

\* get_package_version of nix_flake_health/main.py at time t; nix[package] is the
\* outcome of the nix eval of that package. Returns the call's state and the
\* tuple (version, from_cache).
get_package_version(st, flake_ref, input_name, package, use_cache, nix, t) ==
    LET key == cache_key(flake_ref, input_name, package)
        st1 == IF use_cache THEN DoRead(st, key, t) ELSE st
        cached == IF use_cache THEN LastResult(st1) ELSE None
    IN  IF use_cache /\ cached # None
        THEN [st |-> st1, version |-> cached, from_cache |-> TRUE]
        ELSE LET out == nix[package]
                 st2 == DoNix(st1, [kind |-> "expr", flake_ref |-> flake_ref,
                                    input_name |-> input_name,
                                    packages |-> <<package>>], out)
                 version == IF out.exit_code = 0 THEN Strip(out.stdout) ELSE NotFound
                 st3 == IF use_cache /\ version # NotFound
                        THEN DoWrite(st2, key, version, t) ELSE st2
             IN  [st |-> st3, version |-> version, from_cache |-> FALSE]

\* get_package_version of bin/flake-freshness.py: the same steps with the
\* installable f"{flake_ref}#{input_name}.{package}.version"; it returns the
\* version alone.
get_package_version_freshness(st, flake_ref, input_name, package, use_cache, nix, t) ==
    LET key == cache_key(flake_ref, input_name, package)
        st1 == IF use_cache THEN DoRead(st, key, t) ELSE st
        cached == IF use_cache THEN LastResult(st1) ELSE None
    IN  IF use_cache /\ cached # None
        THEN [st |-> st1, version |-> cached]
        ELSE LET out == nix[package]
                 st2 == DoNix(st1, [kind |-> "attr", flake_ref |-> flake_ref,
                                    input_name |-> input_name,
                                    packages |-> <<package>>], out)
                 version == IF out.exit_code = 0 THEN Strip(out.stdout) ELSE NotFound
                 st3 == IF use_cache /\ version # NotFound
                        THEN DoWrite(st2, key, version, t) ELSE st2
             IN  [st |-> st3, version |-> version]

\* The elements of a list.
Range(seq) == { seq[i] : i \in 1..Len(seq) }

\* results[package] = value of a Python dict.
DictSet(d, k, v) == (k :> v) @@ d

\* versions.get(package, "not found")
DictGet(d, k, default) == IF k \in DOMAIN d THEN d[k] ELSE default

\* The first loop of get_batch_package_versions ("Check cache first"), from the
\* i-th package on; a = [st, results, packages_to_fetch].
RECURSIVE BatchCheckCache(_, _, _, _, _, _, _)
BatchCheckCache(a, flake_ref, input_name, packages, i, use_cache, t) ==
    IF i > Len(packages) THEN a
    ELSE LET package == packages[i]
             key == cache_key(flake_ref, input_name, package)
             st1 == IF use_cache THEN DoRead(a.st, key, t) ELSE a.st
             cached == IF use_cache THEN LastResult(st1) ELSE None
             a1 == IF use_cache /\ cached # None
                   THEN [a EXCEPT !.st = st1,
                                  !.results = DictSet(@, package, <<cached, TRUE>>)]
                   ELSE [a EXCEPT !.st = st1,
                                  !.packages_to_fetch = Append(@, package)]
         IN  BatchCheckCache(a1, flake_ref, input_name, packages, i + 1, use_cache, t)

\* The loop over packages_to_fetch after a batch eval whose output parsed: from the
\* i-th package on; a = [st, results, packages_to_fetch].
RECURSIVE BatchStore(_, _, _, _, _, _, _)
BatchStore(a, flake_ref, input_name, versions, i, use_cache, t) ==
    IF i > Len(a.packages_to_fetch) THEN a
    ELSE LET package == a.packages_to_fetch[i]
             version == DictGet(versions, package, NotFound)
             st1 == IF use_cache /\ version # NotFound
                    THEN DoWrite(a.st, cache_key(flake_ref, input_name, package),
                                 version, t)
                    ELSE a.st
             a1 == [a EXCEPT !.st = st1,
                             !.results = DictSet(@, package, <<version, FALSE>>)]
         IN  BatchStore(a1, flake_ref, input_name, versions, i + 1, use_cache, t)

\* The fallback loop ("Fall back to individual checks"), from the i-th package on.
RECURSIVE BatchFallback(_, _, _, _, _, _, _)
BatchFallback(a, flake_ref, input_name, i, use_cache, nix, t) ==
    IF i > Len(a.packages_to_fetch) THEN a
    ELSE LET package == a.packages_to_fetch[i]
             r == get_package_version(a.st, flake_ref, input_name, package,
                                      use_cache, nix, t)
             a1 == [a EXCEPT !.st = r.st,
                             !.results = DictSet(@, package,
                                                 <<r.version, r.from_cache>>)]
         IN  BatchFallback(a1, flake_ref, input_name, i + 1, use_cache, nix, t)

\* get_batch_package_versions without its fallback: after a batch eval that failed
\* or printed no JSON every package to fetch is "not found".
get_batch_package_versions_noFallback(st, flake_ref, input_name, packages, use_cache, batch, nix, t) ==
    LET a == BatchCheckCache([st |-> st, results |-> <<>>, packages_to_fetch |-> <<>>],
                             flake_ref, input_name, packages, 1, use_cache, t)
    IN  IF a.packages_to_fetch = <<>> THEN [st |-> a.st, results |-> a.results]
        ELSE LET st1 == DoNix(a.st, [kind |-> "batch", flake_ref |-> flake_ref,
                                     input_name |-> input_name,
                                     packages |-> a.packages_to_fetch], batch)
                 a1 == [a EXCEPT !.st = st1]
                 done == BatchStore(a1, flake_ref, input_name,
                                    IF batch.exit_code = 0 /\ batch.valid_json
                                    THEN batch.versions ELSE <<>>,
                                    1, use_cache, t)
             IN  [st |-> done.st, results |-> done.results]

\* get_batch_package_versions at time t. batch = [exit_code, valid_json, versions]
\* is the outcome of the one batch eval, nix[package] that of an individual eval.
\* Returns the call's state and the dict package -> (version, from_cache).
get_batch_package_versions(st, flake_ref, input_name, packages, use_cache, batch, nix, t) ==
    LET a == BatchCheckCache([st |-> st, results |-> <<>>, packages_to_fetch |-> <<>>],
                             flake_ref, input_name, packages, 1, use_cache, t)
    IN  IF a.packages_to_fetch = <<>> THEN [st |-> a.st, results |-> a.results]
        ELSE LET st1 == DoNix(a.st, [kind |-> "batch", flake_ref |-> flake_ref,
                                     input_name |-> input_name,
                                     packages |-> a.packages_to_fetch], batch)
                 a1 == [a EXCEPT !.st = st1]
                 done == IF batch.exit_code = 0 /\ batch.valid_json
                         THEN BatchStore(a1, flake_ref, input_name, batch.versions,
                                         1, use_cache, t)
                         ELSE BatchFallback(a1, flake_ref, input_name, 1, use_cache,
                                            nix, t)
             IN  [st |-> done.st, results |-> done.results]

(***************************************************************************)
(* The flake tools as a state machine: the clock, the cache directory and  *)
(* the calls made on it                                                    *)
(***************************************************************************)

\* ---- bounds ----
MaxTicks == 2
MaxPackages == 2

\* ---- inputs ----
\* The clock advances by a second or by one second less than the TTL: an entry
\* is read at the ages 0, 1, 2, ttl - 1, ttl and beyond.
TickSteps == {1, CacheTtl - 1}

\* Stands for the literal "github:nixos/nixpkgs/" of main.
GithubNixpkgs == <<"g", ":", "n", "/">>

\* Stands for the literal "legacyPackages." of main.
LegacyPackages == <<"l", ".">>

\* A locked revision and a branch name, as extracted from the flake metadata.
LockedRev == <<"r">>
Branch == <<"b">>

\* Stands for a system string such as "x86_64-linux".
System == <<"x">>

\* f"github:nixos/nixpkgs/{...}": the flake references main looks packages up in.
CurrentRef == GithubNixpkgs \o LockedRev
LatestRef == GithubNixpkgs \o Branch

\* The flake references of the cache keys.
AllFlakeRefs == {CurrentRef, LatestRef}

\* The flake reference of the lookups called on their own.
FlakeRefs == {CurrentRef}

InputNames == {LegacyPackages \o System}

\* Package names of the config file: any non-empty strings.
Packages == {<<"p", "/">>, <<"p", ":">>}

PackageLists == UNION { [1..k -> Packages] : k \in 0..MaxPackages }

CacheKeys ==
    { cache_key(r, i, p) : r \in AllFlakeRefs, i \in InputNames, p \in Packages }

CachePaths == { get_cache_path(k) : k \in CacheKeys }

\* Values a caller hands to write_cache: a plain one and one json.dump must escape.
WriteValues == {<<"1">>, <<"\"", "\\">>}

\* What one nix eval --raw can answer: failure, a version (with the newline
\* strip() removes), or the "not found" of the expression's `or "not found"`.
NixOutcomes ==
    { [exit_code |-> 1, stdout |-> <<>>],
      [exit_code |-> 0, stdout |-> <<"1", "\n">>],
      [exit_code |-> 0, stdout |-> NotFound] }

\* The individual evals of a call: one outcome per package.
NixAnswers == [Packages -> NixOutcomes]

\* The individual evals never run.
NixUnused == [p \in Packages |-> [exit_code |-> 1, stdout |-> <<>>]]

BatchVersions == {<<"2">>, NotFound}

BatchFailed == [exit_code |-> 1, valid_json |-> FALSE, versions |-> <<>>]

BatchGarbled == [exit_code |-> 0, valid_json |-> FALSE, versions |-> <<>>]

\* The JSON objects a successful batch eval can print: a version or "not found"
\* for every package, or an object that lacks some package.
BatchObjects ==
    [Packages -> BatchVersions]
    \cup UNION { [S -> {<<"2">>}] : S \in (SUBSET Packages) \ {Packages} }

\* What the nix evals of one get_batch_package_versions call can answer: the batch
\* eval prints a JSON object (no individual eval follows), or it fails or prints
\* no JSON and the individual evals answer.
BatchAnswers ==
    { [batch |-> [exit_code |-> 0, valid_json |-> TRUE, versions |-> v],
       nix |-> NixUnused] : v \in BatchObjects }
    \cup { [batch |-> b, nix |-> n] : b \in {BatchFailed, BatchGarbled}, n \in NixAnswers }

NeverWritten == [set |-> FALSE, value |-> <<>>]

NoCall == [fn |-> "none"]

InitFlake ==
    /\ tool \in {"health", "freshness"}
    /\ pc = "idle"
    /\ now = 0
    /\ ticks = 0
    /\ cache = [p \in CachePaths |-> NoFile]
    /\ written = [k \in CacheKeys |-> NeverWritten]
    /\ last = NoCall
    /\ calls = <<>>

\* The flake tools have not run.
FlakeIdle ==
    /\ tool = "health"
    /\ pc = "idle"
    /\ now = 0
    /\ ticks = 0
    /\ cache = [p \in CachePaths |-> NoFile]
    /\ written = [k \in CacheKeys |-> NeverWritten]
    /\ last = NoCall
    /\ calls = <<>>

\* No run of main: the fields of `run` before main has set them.
NoRun ==
    [error |-> "none", no_cache |-> FALSE, packages |-> <<>>, has_info |-> FALSE,
     locked_rev |-> None, branch |-> <<>>, i |-> 1, current_versions |-> <<>>,
     results |-> <<>>]

MainIdle ==
    /\ run = NoRun
    /\ exit_code = 0

\* The git utility has not run.
GitIdle ==
    /\ gt_pc = "idle"
    /\ gt_file = "test.py"
    /\ gt_repos = <<>>
    /\ gt_dirs = <<>>
    /\ gt_i = 1
    /\ gt_log = <<>>
    /\ gt_results = <<>>
    /\ gt_changes_exist = FALSE
    /\ gt_ret = <<>>
    /\ gt_exit = <<>>

\* release.py has not run.
ReleaseIdle ==
    /\ rl_pc = "idle"
    /\ rl_latest_tag = None
    /\ rl_release_type = <<>>
    /\ rl_version = <<>>
    /\ rl_answers = <<>>
    /\ rl_confirm = <<>>
    /\ rl_log = <<>>
    /\ rl_exit = <<>>

\* extract_input_info has not run.
InputsIdle ==
    /\ fi_pc = "idle"
    /\ fi_lines = <<>>
    /\ fi_content = <<>>
    /\ fi_metadata = <<>>
    /\ fi_info = <<>>

\* None of the other scripts has run.
ScriptsIdle == GitIdle /\ ReleaseIdle /\ InputsIdle

\* No compare_versions call in progress.
CompareIdle ==
    /\ cv_current = <<>>
    /\ cv_latest = <<>>
    /\ cv_tool = "none"
    /\ cv_result = "none"

\* bookmarks.py has not run.
BookmarksIdle ==
    /\ bm_pc = "start"
    /\ bm_browser = "firefox"
    /\ bm_data = <<>>
    /\ bm_bookmarks = <<>>
    /\ bm_pick = 0
    /\ bm_selected = <<>>
    /\ bm_argv = <<>>
    /\ bm_started = {}
    /\ bm_stderr = <<>>
    /\ bm_exit = <<>>
    /\ bm_raised = <<>>

\* The call that started on the cache directory with an empty log.
Begin == [files |-> cache, calls |-> <<>>]

\* A call made while nothing else runs has finished in st and returns.
Finish(st, call) ==
    /\ pc = "idle"
    /\ pc' = "returned"
    /\ cache' = st.files
    /\ calls' = st.calls
    /\ last' = call
    /\ UNCHANGED <<tool, now, ticks, nonFlakeVars>>

\* The caller goes on after the call.
Return ==
    /\ pc = "returned"
    /\ pc' = "idle"
    /\ last' = NoCall
    /\ calls' = <<>>
    /\ UNCHANGED <<tool, now, ticks, cache, written, nonFlakeVars>>

\* Time passes, between calls and runs and while main waits for nix.
Tick(d) ==
    /\ pc \in {"idle", "fetch_current", "fetch_latest", "check_packages"}
    /\ ticks < MaxTicks
    /\ now' = now + d
    /\ ticks' = ticks + 1
    /\ UNCHANGED <<tool, pc, cache, written, last, calls, nonFlakeVars>>

\* write_cache(key, value), called on its own; `written` remembers it.
WriteCache(key, value) ==
    /\ Finish(DoWrite(Begin, key, value, now),
              [fn |-> "write_cache", key |-> key, value |-> value])
    /\ written' = [written EXCEPT ![key] = [set |-> TRUE, value |-> value]]

\* read_cache(key), called on its own.
ReadCache(key) ==
    /\ LET st == DoRead(Begin, key, now)
       IN  Finish(st, [fn |-> "read_cache", key |-> key, ret |-> LastResult(st)])
    /\ UNCHANGED written

\* get_package_version(flake_ref, input_name, package, use_cache) of main.py.
GetPackageVersion(flake_ref, input_name, package, use_cache, out) ==
    /\ tool = "health"
    /\ LET r == get_package_version(Begin, flake_ref, input_name, package,
                                    use_cache, [p \in Packages |-> out], now)
       IN  Finish(r.st, [fn |-> "get_package_version", flake_ref |-> flake_ref,
                         input_name |-> input_name, package |-> package,
                         use_cache |-> use_cache,
                         ret |-> <<r.version, r.from_cache>>])
    /\ UNCHANGED written

\* get_package_version(flake_ref, input_name, package, use_cache) of flake-freshness.py.
GetPackageVersionFreshness(flake_ref, input_name, package, use_cache, out) ==
    /\ tool = "freshness"
    /\ LET r == get_package_version_freshness(Begin, flake_ref, input_name, package,
                                              use_cache, [p \in Packages |-> out], now)
       IN  Finish(r.st, [fn |-> "get_package_version", flake_ref |-> flake_ref,
                         input_name |-> input_name, package |-> package,
                         use_cache |-> use_cache,
                         ret |-> r.version])
    /\ UNCHANGED written

\* get_batch_package_versions(flake_ref, input_name, packages, use_cache) of main.py.
GetBatchPackageVersions(flake_ref, input_name, packages, use_cache, answers) ==
    /\ tool = "health"
    /\ LET r == get_batch_package_versions(Begin, flake_ref, input_name, packages,
                                           use_cache, answers.batch, answers.nix, now)
       IN  Finish(r.st, [fn |-> "get_batch_package_versions", flake_ref |-> flake_ref,
                         input_name |-> input_name, packages |-> packages,
                         use_cache |-> use_cache,
                         ret |-> r.results])
    /\ UNCHANGED written

\* The lookups of the flake tools, called on their own.
NextFlake ==
    \/ \E d \in TickSteps : Tick(d)
    \/ \E key \in CacheKeys : ReadCache(key)
    \/ \E flake_ref \in FlakeRefs, input_name \in InputNames, package \in Packages,
          use_cache \in BOOLEAN, out \in NixOutcomes :
            \/ GetPackageVersion(flake_ref, input_name, package, use_cache, out)
            \/ GetPackageVersionFreshness(flake_ref, input_name, package, use_cache, out)
    \/ \E flake_ref \in FlakeRefs, input_name \in InputNames, packages \in PackageLists,
          use_cache \in BOOLEAN, answers \in BatchAnswers :
            GetBatchPackageVersions(flake_ref, input_name, packages, use_cache, answers)
    \/ Return

\* The cache functions called on their own.
NextCache ==
    \/ \E d \in TickSteps : Tick(d)
    \/ \E key \in CacheKeys, value \in WriteValues : WriteCache(key, value)
    \/ \E key \in CacheKeys : ReadCache(key)
    \/ Return

(***************************************************************************)
(* parse_version / compare_versions                                        *)
(***************************************************************************)

Digits == {"0", "1", "2", "3", "4", "5", "6", "7", "8", "9"}

DigitValue(c) ==
    CASE c = "0" -> 0 [] c = "1" -> 1 [] c = "2" -> 2 [] c = "3" -> 3
      [] c = "4" -> 4 [] c = "5" -> 5 [] c = "6" -> 6 [] c = "7" -> 7
      [] c = "8" -> 8 [] c = "9" -> 9

\* int(x) of a string of decimal digits.
RECURSIVE ToInt(_)
ToInt(ds) ==
    IF ds = <<>> THEN 0
    ELSE 10 * ToInt(SubSeq(ds, 1, Len(ds) - 1)) + DigitValue(ds[Len(ds)])

\* The number of digits of s from the 1-based position i on (the greedy \d+).
RECURSIVE DigitRun(_, _)
DigitRun(s, i) ==
    IF i <= Len(s) /\ s[i] \in Digits THEN 1 + DigitRun(s, i + 1) ELSE 0

\* The greedy (?:\.\d+)*: n characters are matched so far; one more group is taken
\* while a dot followed by a digit comes next.
RECURSIVE MatchGroups(_, _)
MatchGroups(s, n) ==
    IF n + 2 <= Len(s) /\ s[n + 1] = "." /\ s[n + 2] \in Digits
    THEN MatchGroups(s, n + 1 + DigitRun(s, n + 2))
    ELSE n

\* The length of re.match(r"^(\d+(?:\.\d+)*)", s).group(1); 0 when there is no match.
MatchLen(s) ==
    IF DigitRun(s, 1) = 0 THEN 0 ELSE MatchGroups(s, DigitRun(s, 1))

\* numeric_part.split("."), each part through int(): numeric_part is digits
\* separated by single dots.
RECURSIVE SplitInts(_)
SplitInts(np) ==
    IF np = <<>> THEN <<>>
    ELSE LET d == DigitRun(np, 1)
         IN  <<ToInt(SubSeq(np, 1, d))>> \o SplitInts(Drop(np, d + 1))

\* parse_version: (numeric parts, remaining string).
parse_version(version_str) ==
    LET n == MatchLen(version_str)
    IN  IF n > 0
        THEN [parts |-> SplitInts(SubSeq(version_str, 1, n)),
              remaining |-> Drop(version_str, n)]
        ELSE [parts |-> <<>>, remaining |-> version_str]

\* Mutant of PadZeros: the shorter version is not padded, so zip() stops at its end.
PadZeros_unpadded(parts, max_len) == parts

\* parts += [0] * (max_len - len(parts))
PadZeros(parts, max_len) ==
    parts \o [i \in 1..(max_len - Len(parts)) |-> 0]

Max(a, b) == IF a >= b THEN a ELSE b

\* for c, l in zip(current_parts, latest_parts): the first position that differs
\* decides; "none" when the loop ends without returning.
RECURSIVE CompareParts(_, _, _)
CompareParts(cp, lp, i) ==
    IF i > Len(cp) \/ i > Len(lp) THEN "none"
    ELSE IF cp[i] < lp[i] THEN "outdated"
    ELSE IF cp[i] > lp[i] THEN "equal"
    ELSE CompareParts(cp, lp, i + 1)

\* Mutant of compare_versions: the `current == latest` shortcut is missing.
compare_versions_noShortcut(current, latest) ==
    IF current = NotFound \/ latest = NotFound THEN "unknown"
    ELSE LET c == parse_version(current)
             l == parse_version(latest)
         IN  IF c.parts # <<>> /\ l.parts # <<>>
             THEN LET max_len == Max(Len(c.parts), Len(l.parts))
                      byParts == CompareParts(PadZeros(c.parts, max_len),
                                              PadZeros(l.parts, max_len), 1)
                  IN  IF byParts # "none" THEN byParts
                      ELSE IF c.remaining # l.remaining THEN "outdated"
                      ELSE "equal"
             ELSE "outdated"

\* Mutant of compare_versions_freshness: only current is tested for the sentinel.
compare_versions_freshness_currentOnly(current, latest) ==
    IF current = NotFound THEN "unknown"
    ELSE IF current = latest THEN "equal"
    ELSE "outdated"

\* compare_versions of nix_flake_health/main.py.
compare_versions(current, latest) ==
    IF current = NotFound \/ latest = NotFound THEN "unknown"
    ELSE IF current = latest THEN "equal"
    ELSE LET c == parse_version(current)
             l == parse_version(latest)
         IN  IF c.parts # <<>> /\ l.parts # <<>>
             THEN LET max_len == Max(Len(c.parts), Len(l.parts))
                      byParts == CompareParts(PadZeros(c.parts, max_len),
                                              PadZeros(l.parts, max_len), 1)
                  IN  IF byParts # "none" THEN byParts
                      ELSE IF c.remaining # l.remaining THEN "outdated"
                      ELSE "equal"
             ELSE "outdated"

\* compare_versions of bin/flake-freshness.py.
compare_versions_freshness(current, latest) ==
    IF current = NotFound \/ latest = NotFound THEN "unknown"
    ELSE IF current = latest THEN "equal"
    ELSE "outdated"

\* ---- bounds and inputs ----
MaxVerLen == 3

VersionChars == {"0", "1", ".", "a"}

Versions == StringsUpTo(VersionChars, MaxVerLen) \cup {NotFound, NoLock}

InitCompare ==
    /\ cv_current \in Versions
    /\ cv_latest \in Versions
    /\ cv_tool = "none"
    /\ cv_result = "none"
    /\ FlakeIdle
    /\ MainIdle
    /\ ScriptsIdle
    /\ BookmarksIdle

\* main.py calls compare_versions(current, latest) on a package's two versions.
CompareVersionsHealth ==
    /\ cv_tool = "none"
    /\ cv_tool' = "health"
    /\ cv_result' = compare_versions(cv_current, cv_latest)
    /\ UNCHANGED <<cv_current, cv_latest, nonCompareVars>>

\* flake-freshness.py does the same with its own compare_versions.
CompareVersionsFreshness ==
    /\ cv_tool = "none"
    /\ cv_tool' = "freshness"
    /\ cv_result' = compare_versions_freshness(cv_current, cv_latest)
    /\ UNCHANGED <<cv_current, cv_latest, nonCompareVars>>

NextCompare ==
    \/ CompareVersionsHealth
    \/ CompareVersionsFreshness

SpecCompare == InitCompare /\ [][NextCompare]_vars

(***************************************************************************)
(* main of the two flake tools                                             *)
(***************************************************************************)

\* The package lists of a config file: every package at most once.
ConfigPackageLists ==
    { l \in PackageLists : \A i, j \in 1..Len(l) : l[i] = l[j] => i = j }

\* What --pkgs or the default locations hold: no file, a file open() may not
\* read, a TOML file without [packages], or a file listing packages.
Configs ==
    { [kind |-> k, packages |-> <<>>] :
        k \in {"not_found", "unreadable", "no_packages_section"} }
    \cup { [kind |-> "ok", packages |-> l] : l \in ConfigPackageLists }

\* find_packages_config followed by load_packages of nix_flake_health/main.py:
\* the exception raised ("none" if none) and the list returned.
load_packages(config) ==
    IF config.kind = "not_found"
    THEN [raised |-> "FileNotFoundError", packages |-> <<>>]
    ELSE IF config.kind = "unreadable"
    THEN [raised |-> "PermissionError", packages |-> <<>>]
    ELSE IF config.kind = "no_packages_section"
    THEN [raised |-> "ValueError", packages |-> <<>>]
    ELSE IF config.packages = <<>>
    THEN [raised |-> "ValueError", packages |-> <<>>]
    ELSE [raised |-> "none", packages |-> config.packages]

\* find_packages_config followed by load_packages of bin/flake-freshness.py, which
\* accepts an empty [packages] section.
load_packages_freshness(config) ==
    IF config.kind = "not_found"
    THEN [raised |-> "FileNotFoundError", packages |-> <<>>]
    ELSE IF config.kind = "unreadable"
    THEN [raised |-> "PermissionError", packages |-> <<>>]
    ELSE IF config.kind = "no_packages_section"
    THEN [raised |-> "ValueError", packages |-> <<>>]
    ELSE [raised |-> "none", packages |-> config.packages]

\* The exit status of a Python script whose main returned (whatever it printed),
\* or which an exception nothing caught has ended.
ExitStatus(uncaught) == IF uncaught THEN 1 ELSE 0

\* The nix evals of one step of a run of main: all succeed or all fail.
MainNixOutcomes ==
    { [exit_code |-> 1, stdout |-> <<>>],
      [exit_code |-> 0, stdout |-> <<"1", "\n">>] }

\* The batch eval of a run of main prints every version, or fails and the
\* individual evals answer.
MainBatchAnswers ==
    { [batch |-> [exit_code |-> 0, valid_json |-> TRUE,
                  versions |-> [p \in Packages |-> <<"2">>]],
       nix |-> NixUnused] }
    \cup { [batch |-> BatchFailed, nix |-> [p \in Packages |-> out]] :
             out \in MainNixOutcomes }

\* main ends: `error` is what it reported.
MainEnds(error, uncaught) ==
    /\ pc' = "exited"
    /\ run' = [NoRun EXCEPT !.error = error]
    /\ exit_code' = ExitStatus(uncaught)
    /\ last' = [fn |-> "main"]
    /\ calls' = <<>>
    /\ UNCHANGED <<tool, now, ticks, cache, written, nonMainVars>>

\* main up to the first lookup, for the packages loaded and the flake metadata
\* found; `first` is where the lookups start.
MainBegins(flake_exists, loaded, no_cache, has_info, locked_rev, first) ==
    /\ pc = "idle"
    /\ IF ~flake_exists THEN MainEnds("flake_not_found", FALSE)
       ELSE IF loaded.raised = "FileNotFoundError"
       THEN MainEnds("config_not_found", FALSE)
       ELSE IF loaded.raised = "ValueError"
       THEN MainEnds("config_invalid", FALSE)
       ELSE IF loaded.raised # "none"
       THEN MainEnds("traceback", TRUE)
       ELSE IF loaded.packages = <<>>
       THEN MainEnds("no_packages", FALSE)
       ELSE /\ pc' = first
            /\ run' = [NoRun EXCEPT !.no_cache = no_cache,
                                    !.packages = loaded.packages,
                                    !.has_info = has_info,
                                    !.locked_rev = locked_rev,
                                    !.branch = Branch]
            /\ last' = [fn |-> "main"]
            /\ calls' = <<>>
            /\ UNCHANGED <<tool, now, ticks, cache, written, exit_code, nonMainVars>>

\* main of nix_flake_health/main.py, up to "Batch fetch current versions".
MainHealth(flake_exists, config, no_cache, locked_rev) ==
    /\ tool = "health"
    /\ MainBegins(flake_exists, load_packages(config), no_cache, TRUE, locked_rev,
                  "fetch_current")

\* main of bin/flake-freshness.py, up to the loop over the packages; has_info
\* tells whether extract_input_info found the packages' input.
MainFreshness(flake_exists, config, no_cache, has_info, locked_rev) ==
    /\ tool = "freshness"
    /\ MainBegins(flake_exists, load_packages_freshness(config), no_cache, has_info,
                  locked_rev, "check_packages")

\* A step of main that made the lookups logged in st; after the last one main
\* prints the results and returns.
MainStep(st, next_pc, next_run) ==
    /\ pc' = next_pc
    /\ run' = next_run
    /\ cache' = st.files
    /\ calls' = st.calls
    /\ last' = [fn |-> "main"]
    /\ exit_code' = IF next_pc = "exited" THEN ExitStatus(FALSE) ELSE exit_code
    /\ UNCHANGED <<tool, now, ticks, written, nonMainVars>>

\* main.py, "Batch fetch current versions".
MainFetchCurrent(answers) ==
    /\ tool = "health"
    /\ pc = "fetch_current"
    /\ LET use_cache == ~run.no_cache
       IN  IF run.locked_rev # None
           THEN LET r == get_batch_package_versions(
                             Begin, GithubNixpkgs \o run.locked_rev,
                             LegacyPackages \o System, run.packages, use_cache,
                             answers.batch, answers.nix, now)
                IN  MainStep(r.st, "fetch_latest",
                             [run EXCEPT !.current_versions = r.results])
           ELSE MainStep(Begin, "fetch_latest",
                         [run EXCEPT !.current_versions =
                             [p \in Range(run.packages) |-> <<NoLock, FALSE>>]])

\* main.py, "Batch fetch latest versions", "Process results" and the output.
MainFetchLatest(answers) ==
    /\ tool = "health"
    /\ pc = "fetch_latest"
    /\ LET use_cache == ~run.no_cache
           r == get_batch_package_versions(
                    Begin, GithubNixpkgs \o run.branch, LegacyPackages \o System,
                    run.packages, use_cache, answers.batch, answers.nix, now)
           Row(package) ==
               LET current == DictGet(run.current_versions, package, <<NotFound, FALSE>>)
                   latest == DictGet(r.results, package, <<NotFound, FALSE>>)
               IN  [package |-> package, current |-> current[1], latest |-> latest[1],
                    status |-> compare_versions(current[1], latest[1]),
                    current_cached |-> current[2], latest_cached |-> latest[2]]
       IN  MainStep(r.st, "exited",
                    [run EXCEPT !.results =
                        [i \in 1..Len(run.packages) |-> Row(run.packages[i])]])

\* flake-freshness.py, one round of "Check each package": the package is skipped
\* if its input is unknown, else its current and its latest version are looked up;
\* after the last package the results are printed.
MainCheckPackage(out) ==
    /\ tool = "freshness"
    /\ pc = "check_packages"
    /\ LET use_cache == ~run.no_cache
           package == run.packages[run.i]
           next_pc == IF run.i = Len(run.packages) THEN "exited" ELSE "check_packages"
           c == IF run.locked_rev # None
                THEN get_package_version_freshness(
                         Begin, GithubNixpkgs \o run.locked_rev,
                         LegacyPackages \o System, package, use_cache,
                         [p \in Packages |-> out], now)
                ELSE [st |-> Begin, version |-> NoLock]
           l == get_package_version_freshness(
                    c.st, GithubNixpkgs \o run.branch, LegacyPackages \o System,
                    package, use_cache, [p \in Packages |-> out], now)
       IN  IF ~run.has_info
           THEN MainStep(Begin, next_pc, [run EXCEPT !.i = @ + 1])
           ELSE MainStep(l.st, next_pc,
                         [run EXCEPT !.i = @ + 1,
                                     !.results = Append(@,
                                         [package |-> package, current |-> c.version,
                                          latest |-> l.version,
                                          status |-> compare_versions_freshness(
                                                         c.version, l.version)])])

\* The process is gone; the tool can be started again.
BackToShell ==
    /\ pc = "exited"
    /\ pc' = "idle"
    /\ run' = NoRun
    /\ exit_code' = 0
    /\ last' = NoCall
    /\ calls' = <<>>
    /\ UNCHANGED <<tool, now, ticks, cache, written, nonMainVars>>

\* Runs of the flake tools.
NextMain ==
    \/ \E d \in TickSteps : Tick(d)
    \/ \E flake_exists \in BOOLEAN, config \in Configs, no_cache \in BOOLEAN,
          locked_rev \in {None, LockedRev} :
            \/ MainHealth(flake_exists, config, no_cache, locked_rev)
            \/ \E has_info \in BOOLEAN :
                  MainFreshness(flake_exists, config, no_cache, has_info, locked_rev)
    \/ \E answers \in MainBatchAnswers :
            \/ MainFetchCurrent(answers)
            \/ MainFetchLatest(answers)
    \/ \E out \in MainNixOutcomes : MainCheckPackage(out)
    \/ BackToShell

(***************************************************************************)
(* The flake tools' specification                                          *)
(***************************************************************************)

Init == InitFlake /\ MainIdle /\ CompareIdle /\ BookmarksIdle /\ ScriptsIdle

Next == NextFlake

Spec == Init /\ [][Next]_vars

\* The cache functions alone.
SpecCache == Init /\ [][NextCache]_vars

\* Runs of main.
SpecMain == Init /\ [][NextMain]_vars

(***************************************************************************)
(* bookmarks.py: the Brave bookmark extraction                             *)
(***************************************************************************)

\* ---- bounds ----
MaxNodes == 4

\* The parsed Bookmarks file is a tree of JSON values. Its dicts, its lists and the
\* other values standing where a dict or list could are numbered 1..n in document
\* order; data.parent[i] is the dict or list that holds node i (0 for the root) and
\* data.node[i] tells what node i is. The strings under the keys "type", "name"
\* and "url" of a dict are fields of the dict's node.

\* The name and the url of the dict that is node i, if it has them: no two nodes
\* share one.
NameOf(i) == [k \in 1..i |-> "n"]
UrlOf(i) == [k \in 1..i |-> "u"]

TypeUrl == <<"u", "r", "l">>
TypeFolder == <<"f", "o", "l", "d", "e", "r">>

\* The dicts of a Bookmarks file: a bookmark, a bookmark that lacks "name" or "url",
\* a folder, and a dict without "type".
DictShapes ==
    { [kind |-> "dict", type |-> TypeUrl, has_name |-> TRUE, has_url |-> TRUE],
      [kind |-> "dict", type |-> TypeUrl, has_name |-> FALSE, has_url |-> TRUE],
      [kind |-> "dict", type |-> TypeUrl, has_name |-> TRUE, has_url |-> FALSE],
      [kind |-> "dict", type |-> TypeFolder, has_name |-> TRUE, has_url |-> TRUE],
      [kind |-> "dict", type |-> None, has_name |-> TRUE, has_url |-> TRUE] }

ListShape == [kind |-> "list", type |-> None, has_name |-> FALSE, has_url |-> FALSE]

\* A string, number, boolean or null.
ScalarShape == [kind |-> "scalar", type |-> None, has_name |-> FALSE, has_url |-> FALSE]

Shapes == DictShapes \cup {ListShape, ScalarShape}

\* The node of the given shape at position i; None stands for a key the dict lacks.
NodeOf(shape, i) ==
    [kind |-> shape.kind, type |-> shape.type,
     name |-> IF shape.has_name THEN NameOf(i) ELSE None,
     url |-> IF shape.has_url THEN UrlOf(i) ELSE None]

\* Node a is node i or one of the dicts and lists around it.
RECURSIVE Encloses(_, _, _)
Encloses(parent, a, i) ==
    IF i = 0 THEN FALSE
    ELSE IF a = i THEN TRUE
    ELSE Encloses(parent, a, parent[i])

\* The parent functions of the trees of n nodes numbered in document order: the
\* node after node i stands in i or in a dict or list that is still open.
Parents(n) ==
    { parent \in [1..n -> 0..(n - 1)] :
        /\ parent[1] = 0
        /\ \A i \in 2..n : parent[i] # 0 /\ Encloses(parent, parent[i], i - 1) }

\* The JSON document with the given parents and shapes.
Document(parent, shape) ==
    [parent |-> parent, node |-> [i \in 1..Len(shape) |-> NodeOf(shape[i], i)]]

\* Only dicts and lists hold nodes.
IsDocument(data) ==
    \A i \in 2..Len(data.node) : data.node[data.parent[i]].kind # "scalar"

\* The nodes a dict or list holds, in document order: node.values() of a dict, the
\* items of a list.
Values(data, i) ==
    SelectSeq([j \in 1..Len(data.node) |-> j], LAMBDA j : data.parent[j] = i)

\* Mutant of extract_bookmarks: a dict's own pair is appended after those found
\* inside it.
RECURSIVE extract_bookmarks_childrenFirst(_, _, _)
extract_bookmarks_childrenFirst(data, i, bookmarks) ==
    LET node == data.node[i]
        RECURSIVE Each(_, _, _)
        Each(values, k, acc) ==
            IF k > Len(values) THEN acc
            ELSE Each(values, k + 1, extract_bookmarks_childrenFirst(data, values[k], acc))
        inner == Each(Values(data, i), 1, bookmarks)
    IN  IF node.kind = "dict"
        THEN IF node.type = TypeUrl /\ node.url # None /\ node.name # None
             THEN Append(inner, <<node.name, node.url>>)
             ELSE inner
        ELSE IF node.kind = "list" THEN inner
        ELSE bookmarks

\* extract_bookmarks(node) for the node i of data; bookmarks is the list it appends
\* to, and the list after the call is returned.
RECURSIVE extract_bookmarks(_, _, _)
extract_bookmarks(data, i, bookmarks) ==
    LET node == data.node[i]
        RECURSIVE Each(_, _, _)
        Each(values, k, acc) ==
            IF k > Len(values) THEN acc
            ELSE Each(values, k + 1, extract_bookmarks(data, values[k], acc))
    IN  IF node.kind = "dict"
        THEN LET own == IF node.type # None /\ node.type = TypeUrl
                        THEN IF node.url # None /\ node.name # None
                             THEN Append(bookmarks, <<node.name, node.url>>)
                             ELSE bookmarks
                        ELSE bookmarks
             IN  Each(Values(data, i), 1, own)
        ELSE IF node.kind = "list"
        THEN Each(Values(data, i), 1, bookmarks)
        ELSE bookmarks

\* A Bookmarks file of up to MaxNodes nodes has been parsed.
InitExtract ==
    /\ bm_pc = "start"
    /\ bm_browser = "brave"
    /\ \E n \in 1..MaxNodes : \E parent \in Parents(n), shape \in [1..n -> Shapes] :
          /\ IsDocument(Document(parent, shape))
          /\ bm_data = Document(parent, shape)
    /\ bm_bookmarks = <<>>
    /\ bm_pick = 0
    /\ bm_selected = <<>>
    /\ bm_argv = <<>>
    /\ bm_started = {}
    /\ bm_stderr = <<>>
    /\ bm_exit = <<>>
    /\ bm_raised = <<>>
    /\ FlakeIdle
    /\ MainIdle
    /\ ScriptsIdle
    /\ CompareIdle

\* get_browser_bookmarks("brave") once json.load has parsed the Bookmarks file.
GetBrowserBookmarks ==
    /\ bm_pc = "start"
    /\ bm_browser = "brave"
    /\ bm_pc' = "extracted"
    /\ bm_bookmarks' = extract_bookmarks(bm_data, 1, <<>>)
    /\ UNCHANGED <<bm_browser, bm_data, bm_pick, bm_selected, bm_argv, bm_started,
                   bm_stderr, bm_exit, bm_raised, nonBookmarkVars>>

NextExtract == GetBrowserBookmarks

SpecExtract == InitExtract /\ [][NextExtract]_vars

(***************************************************************************)
(* bookmarks.py: the selection with fuzzel and the browser                 *)
(***************************************************************************)

\* ---- bounds ----
MaxWords == 3

\* The ' - ' between title and url of a line of the selector.
Separator == <<" ", "-", " ">>

\* The words joined in the given order.
RECURSIVE Flatten(_)
Flatten(words) == IF words = <<>> THEN <<>> ELSE Head(words) \o Flatten(Tail(words))

\* Strings of up to n of the given words.
Phrases(words, n) == { Flatten(p) : p \in UNION { [1..k -> words] : k \in 0..n } }

\* Titles and urls of bookmarks: plain text and the separator, in any order.
Titles == Phrases({<<"a">>, Separator}, MaxWords)
Urls == Phrases({<<"u">>, Separator}, MaxWords) \ {<<>>}

\* A bookmark whose title and url hold nothing the selection could trip over.
PlainBookmark == <<<<"b">>, <<"v">>>>

\* The lists get_browser_bookmarks can return: a bookmark with any title and url,
\* alone or next to others; the Firefox query leaves out empty titles.
BookmarkLists(browser) ==
    {<<>>} \cup
    { before \o <<<<title, url>>>> \o after :
        title \in IF browser = "firefox" THEN Titles \ {<<>>} ELSE Titles,
        url \in Urls,
        before \in {<<>>, <<PlainBookmark>>},
        after \in {<<>>, <<PlainBookmark>>} }

\* sep.join(strings)
RECURSIVE Join(_, _)
Join(strings, sep) ==
    IF strings = <<>> THEN <<>>
    ELSE IF Len(strings) = 1 THEN strings[1]
    ELSE strings[1] \o sep \o Join(Tail(strings), sep)

\* The 1-based index of the first occurrence of sep in s, 0 if there is none.
Find(s, sep) ==
    LET hits == { i \in 1..(Len(s) - Len(sep) + 1) :
                    SubSeq(s, i, i + Len(sep) - 1) = sep }
    IN  IF hits = {} THEN 0 ELSE CHOOSE i \in hits : \A j \in hits : i <= j

\* s.split(sep)
RECURSIVE Split(_, _)
Split(s, sep) ==
    LET at == Find(s, sep)
    IN  IF at = 0 THEN <<s>>
        ELSE <<SubSeq(s, 1, at - 1)>> \o Split(SubSeq(s, at + Len(sep), Len(s)), sep)

\* The entries fuzzel shows in dmenu mode: the lines of its input.
Entries(input_text) == IF input_text = <<>> THEN <<>> ELSE Split(input_text, <<"\n">>)

\* What fuzzel prints when the user picks an entry: the entry and a newline.
FuzzelStdout(input_text, pick) == Entries(input_text)[pick] \o <<"\n">>

\* Mutant of show_bookmarks_with_fuzzel: when fuzzel exits with an error the first
\* line is taken as selected.
show_bookmarks_with_fuzzel_firstOnError(bookmarks, pick) ==
    IF bookmarks = <<>> THEN <<>>
    ELSE LET line == bookmarks[IF pick = 0 THEN 1 ELSE pick]
             selected == Strip(line[1] \o Separator \o line[2])
         IN  IF selected # <<>> /\ Find(selected, Separator) # 0
             THEN Split(selected, Separator)[2]
             ELSE selected

\* show_bookmarks_with_fuzzel: pick is the entry the user picks, 0 if fuzzel exits
\* with an error (Escape) and subprocess.run raises CalledProcessError.
show_bookmarks_with_fuzzel(bookmarks, pick) ==
    LET input_text ==
            Join([k \in 1..Len(bookmarks) |->
                    bookmarks[k][1] \o Separator \o bookmarks[k][2]], <<"\n">>)
        selected == Strip(FuzzelStdout(input_text, pick))
    IN  IF pick = 0 THEN <<>>
        ELSE IF selected # <<>> /\ Find(selected, Separator) # 0
        THEN Split(selected, Separator)[2]
        ELSE selected

\* The lines the user can pick (a list holds at most three bookmarks); 0: none.
Picks == 0..3

\* get_browser_bookmarks has returned a list.
InitSelect ==
    /\ bm_pc = "extracted"
    /\ bm_browser \in {"firefox", "brave"}
    /\ bm_data = <<>>
    /\ bm_bookmarks \in BookmarkLists(bm_browser)
    /\ bm_pick = 0
    /\ bm_selected = <<>>
    /\ bm_argv = <<>>
    /\ bm_started = {}
    /\ bm_stderr = <<>>
    /\ bm_exit = <<>>
    /\ bm_raised = <<>>
    /\ FlakeIdle
    /\ MainIdle
    /\ ScriptsIdle
    /\ CompareIdle

\* main: selected_url = show_bookmarks_with_fuzzel(bookmarks, args.browser)
ShowBookmarksWithFuzzel(pick) ==
    /\ bm_pc = "extracted"
    /\ pick <= Len(bm_bookmarks)
    /\ bm_pc' = "selected"
    /\ bm_pick' = pick
    /\ bm_selected' = show_bookmarks_with_fuzzel(bm_bookmarks, pick)
    /\ bm_started' = bm_started \cup {"fuzzel"}
    /\ UNCHANGED <<bm_browser, bm_data, bm_bookmarks, bm_argv, bm_stderr, bm_exit,
                   bm_raised, nonBookmarkVars>>

\* main: if selected_url: open_url_in_browser(selected_url, args.browser); then
\* main returns.
OpenUrlInBrowser ==
    /\ bm_pc = "selected"
    /\ bm_selected # <<>>
    /\ bm_pc' = "opened"
    /\ bm_argv' = <<IF bm_browser = "firefox" THEN "firefox" ELSE "brave", bm_selected>>
    /\ bm_started' = bm_started \cup {bm_argv'[1]}
    /\ bm_exit' = <<0>>
    /\ UNCHANGED <<bm_browser, bm_data, bm_bookmarks, bm_pick, bm_selected, bm_stderr,
                   bm_raised, nonBookmarkVars>>

NextSelect ==
    \/ \E pick \in Picks : ShowBookmarksWithFuzzel(pick)
    \/ OpenUrlInBrowser

SpecSelect == InitSelect /\ [][NextSelect]_vars

(***************************************************************************)
(* bookmarks.py: main                                                      *)
(***************************************************************************)

\* The exceptions main catches to print "Error: ..." and exit with status 1.
MainCatches == {"FileNotFoundError", "sqlite3.Error", "JSONDecodeError", "ValueError"}

\* What get_browser_bookmarks can raise: the Firefox profile or database or the
\* Brave file is missing; sqlite fails; the Brave file is no JSON or no UTF-8
\* (UnicodeDecodeError is a ValueError); a file may not be read.
ExtractionErrors(browser) ==
    IF browser = "firefox"
    THEN {"FileNotFoundError", "sqlite3.Error", "PermissionError"}
    ELSE {"FileNotFoundError", "JSONDecodeError", "ValueError", "PermissionError"}

\* An exception leaves main: main's handler prints the error and calls sys.exit(1),
\* or nothing catches it and the interpreter prints the traceback and exits with 1.
MainRaises(by, exc) ==
    /\ bm_pc' = "exited"
    /\ bm_raised' = [by |-> by, exc |-> exc]
    /\ bm_stderr' = Append(bm_stderr, IF exc \in MainCatches THEN "Error" ELSE "Traceback")
    /\ bm_exit' = <<1>>

InitBookmarks ==
    /\ bm_pc = "start"
    /\ bm_browser \in {"firefox", "brave"}
    /\ bm_data = <<>>
    /\ bm_bookmarks = <<>>
    /\ bm_pick = 0
    /\ bm_selected = <<>>
    /\ bm_argv = <<>>
    /\ bm_started = {}
    /\ bm_stderr = <<>>
    /\ bm_exit = <<>>
    /\ bm_raised = <<>>
    /\ FlakeIdle
    /\ MainIdle
    /\ ScriptsIdle
    /\ CompareIdle

\* main: bookmarks = get_browser_bookmarks(args.browser) returns a list.
MainGetsBookmarks(bookmarks) ==
    /\ bm_pc = "start"
    /\ bookmarks \in BookmarkLists(bm_browser)
    /\ bm_pc' = "extracted"
    /\ bm_bookmarks' = bookmarks
    /\ UNCHANGED <<bm_browser, bm_data, bm_pick, bm_selected, bm_argv, bm_started,
                   bm_stderr, bm_exit, bm_raised, nonBookmarkVars>>

\* main: get_browser_bookmarks(args.browser) raises.
MainGetsNoBookmarks(exc) ==
    /\ bm_pc = "start"
    /\ exc \in ExtractionErrors(bm_browser)
    /\ MainRaises("get_browser_bookmarks", exc)
    /\ UNCHANGED <<bm_browser, bm_data, bm_bookmarks, bm_pick, bm_selected, bm_argv,
                   bm_started, nonBookmarkVars>>

\* show_bookmarks_with_fuzzel: fuzzel is not installed, subprocess.run raises
\* FileNotFoundError, which only main catches.
FuzzelNotFound ==
    /\ bm_pc = "extracted"
    /\ MainRaises("show_bookmarks_with_fuzzel", "FileNotFoundError")
    /\ UNCHANGED <<bm_browser, bm_data, bm_bookmarks, bm_pick, bm_selected, bm_argv,
                   bm_started, nonBookmarkVars>>

\* The user presses Ctrl-C while fuzzel is open: main prints "Operation cancelled"
\* and calls sys.exit(0).
KeyboardInterrupt ==
    /\ bm_pc = "extracted"
    /\ bm_pc' = "exited"
    /\ bm_started' = bm_started \cup {"fuzzel"}
    /\ bm_raised' = [by |-> "show_bookmarks_with_fuzzel", exc |-> "KeyboardInterrupt"]
    /\ bm_stderr' = Append(bm_stderr, "Operation cancelled")
    /\ bm_exit' = <<0>>
    /\ UNCHANGED <<bm_browser, bm_data, bm_bookmarks, bm_pick, bm_selected, bm_argv,
                   nonBookmarkVars>>

\* main: `if selected_url:` finds the empty string and main returns.
MainReturns ==
    /\ bm_pc = "selected"
    /\ bm_selected = <<>>
    /\ bm_pc' = "exited"
    /\ bm_exit' = <<0>>
    /\ UNCHANGED <<bm_browser, bm_data, bm_bookmarks, bm_pick, bm_selected, bm_argv,
                   bm_started, bm_stderr, bm_raised, nonBookmarkVars>>

NextBookmarks ==
    \/ \E bookmarks \in BookmarkLists("firefox") \cup BookmarkLists("brave") :
            MainGetsBookmarks(bookmarks)
    \/ \E exc \in ExtractionErrors("firefox") \cup ExtractionErrors("brave") :
            MainGetsNoBookmarks(exc)
    \/ \E pick \in Picks : ShowBookmarksWithFuzzel(pick)
    \/ FuzzelNotFound
    \/ KeyboardInterrupt
    \/ OpenUrlInBrowser
    \/ MainReturns

SpecBookmarks == InitBookmarks /\ [][NextBookmarks]_vars

(***************************************************************************)
(* The git utility: the commands it runs                                   *)
(***************************************************************************)

FILE_SIZE_LIMIT == 50

MaxRepos == 2

MaxChanges == 2

\* A path that does not exist.
NoDirectory == [exists |-> FALSE, large |-> FALSE, changes |-> 0]

\* A directory: `large` says that it holds a file above FILE_SIZE_LIMIT MB outside
\* .git, `changes` is the number of lines `git status --porcelain` would print.
Directories ==
    {NoDirectory} \cup [exists : {TRUE}, large : BOOLEAN, changes : 0..MaxChanges]

\* The paths 1..n in order.
AllOf(n) == [i \in 1..n |-> i]

\* How a command can end: exit status 0; a non-zero exit status; the program is
\* not installed (subprocess.run raises FileNotFoundError).  fd may have printed
\* what it found before it fails ("error_listed").
FdOutcomes == {"ok", "error_listed", "error", "not_installed"}

GitOutcomes == {"ok", "error", "not_installed"}

\* How git add, git commit and git push can end once git status has run.
CommitOutcomes == {"ok", "error"}

ExitCode(outcome) == IF outcome = "ok" THEN 0 ELSE 1

\* The stdout of fd -H --size +50MB -gE .git, split into lines.
FdLargeStdout(repo, outcome) ==
    IF outcome \in {"ok", "error_listed"} /\ repo.large THEN <<"large file">> ELSE <<>>

\* The number of lines git status --porcelain prints.
GitStatusLines(repo, outcome) == IF outcome = "ok" THEN repo.changes ELSE 0

\* test.py check_large_files: run_command turns an exception into exit code 1
\* and empty output.
check_large_files(repo, outcome) ==
    IF ExitCode(outcome) = 0 THEN FdLargeStdout(repo, outcome) ELSE <<>>

\* test.py get_git_status.
get_git_status(repo, outcome) ==
    IF ExitCode(outcome) = 0 THEN GitStatusLines(repo, outcome) ELSE 0

\* big_files in auto_commit: test.py calls check_large_files, git_util.py takes
\* the stdout of fd whatever its exit status.
BigFiles(file, repo, outcome) ==
    IF file = "test.py" THEN check_large_files(repo, outcome)
    ELSE FdLargeStdout(repo, outcome)

\* changes_count / changes_exist in auto_commit.
ChangesCount(file, repo, outcome) ==
    IF file = "test.py" THEN get_git_status(repo, outcome)
    ELSE GitStatusLines(repo, outcome)

Ran(cwd, cmd, outcome) == [cwd |-> cwd, cmd |-> cmd, outcome |-> outcome]

\* subprocess.run raises in git_util.py, where nothing catches it: the interpreter
\* prints the traceback and exits with status 1.
Uncaught(file, outcome) == file = "git_util.py" /\ outcome = "not_installed"

(***************************************************************************)
(* The git utility: auto_commit                                            *)
(***************************************************************************)

InitAutoCommit ==
    /\ gt_pc = "auto_commit"
    /\ gt_file \in {"test.py", "git_util.py"}
    /\ \E n \in 0..MaxRepos : gt_repos \in [1..n -> Directories]
    /\ gt_dirs = AllOf(Len(gt_repos))
    /\ gt_i = 1
    /\ gt_log = <<>>
    /\ gt_results = <<>>
    /\ gt_changes_exist = FALSE
    /\ gt_ret = <<>>
    /\ gt_exit = <<>>
    /\ FlakeIdle
    /\ MainIdle
    /\ CompareIdle
    /\ BookmarksIdle
    /\ ReleaseIdle
    /\ InputsIdle

\* The loop of auto_commit stands at a path.
AtPath ==
    /\ gt_pc = "auto_commit"
    /\ gt_i <= Len(gt_dirs)

Path == gt_dirs[gt_i]

\* `continue` or the end of the loop body: on to the next path.
NextPath(status) ==
    /\ gt_i' = gt_i + 1
    /\ gt_results' = IF gt_file = "test.py"
                     THEN Append(gt_results, [path |-> Path, status |-> status])
                     ELSE gt_results
    /\ UNCHANGED <<gt_pc, gt_file, gt_dirs, gt_changes_exist, gt_ret, gt_exit>>

\* The path does not exist.
AutoCommitNotFound ==
    /\ AtPath
    /\ ~gt_repos[Path].exists
    /\ NextPath("not found")
    /\ UNCHANGED <<gt_repos, gt_log, nonGitVars>>

\* fd is not installed and the script is git_util.py.
AutoCommitFdRaises(fd) ==
    /\ AtPath
    /\ gt_repos[Path].exists
    /\ Uncaught(gt_file, fd)
    /\ gt_log' = Append(gt_log, Ran(Path, "fd", fd))
    /\ gt_pc' = "exited"
    /\ gt_exit' = <<1>>
    /\ UNCHANGED <<gt_file, gt_repos, gt_dirs, gt_i, gt_results, gt_changes_exist, gt_ret,
                   nonGitVars>>

\* big_files is not empty: the repository is skipped.
AutoCommitSkips(fd) ==
    /\ AtPath
    /\ gt_repos[Path].exists
    /\ ~Uncaught(gt_file, fd)
    /\ BigFiles(gt_file, gt_repos[Path], fd) # <<>>
    /\ gt_log' = Append(gt_log, Ran(Path, "fd", fd))
    /\ NextPath("skipped (large files)")
    /\ UNCHANGED <<gt_repos, nonGitVars>>

\* git is not installed and the script is git_util.py.
AutoCommitGitRaises(fd, git) ==
    /\ AtPath
    /\ gt_repos[Path].exists
    /\ ~Uncaught(gt_file, fd)
    /\ BigFiles(gt_file, gt_repos[Path], fd) = <<>>
    /\ Uncaught(gt_file, git)
    /\ gt_log' = gt_log \o <<Ran(Path, "fd", fd), Ran(Path, "git status", git)>>
    /\ gt_pc' = "exited"
    /\ gt_exit' = <<1>>
    /\ UNCHANGED <<gt_file, gt_repos, gt_dirs, gt_i, gt_results, gt_changes_exist, gt_ret,
                   nonGitVars>>

\* No big files and git status shows nothing.
AutoCommitNoChanges(fd, git) ==
    /\ AtPath
    /\ gt_repos[Path].exists
    /\ ~Uncaught(gt_file, fd)
    /\ BigFiles(gt_file, gt_repos[Path], fd) = <<>>
    /\ ~Uncaught(gt_file, git)
    /\ ChangesCount(gt_file, gt_repos[Path], git) = 0
    /\ gt_log' = gt_log \o <<Ran(Path, "fd", fd), Ran(Path, "git status", git)>>
    /\ NextPath("no changes")
    /\ UNCHANGED <<gt_repos, nonGitVars>>

\* No big files and git status shows changes: git add, git commit and git push
\* run; their exit status is not looked at.
AutoCommitCommits(fd, add, commit, push) ==
    /\ AtPath
    /\ gt_repos[Path].exists
    /\ ~Uncaught(gt_file, fd)
    /\ BigFiles(gt_file, gt_repos[Path], fd) = <<>>
    /\ ChangesCount(gt_file, gt_repos[Path], "ok") # 0
    /\ gt_log' = gt_log \o <<Ran(Path, "fd", fd), Ran(Path, "git status", "ok"),
                             Ran(Path, "git add", add), Ran(Path, "git commit", commit),
                             Ran(Path, "git push", push)>>
    /\ gt_repos' = IF add = "ok" /\ commit = "ok"
                   THEN [gt_repos EXCEPT ![Path].changes = 0]
                   ELSE gt_repos
    /\ NextPath("committed & pushed")
    /\ UNCHANGED nonGitVars

\* The loop is over: test.py prints the summary table; auto_commit returns None.
AutoCommitReturns ==
    /\ gt_pc = "auto_commit"
    /\ gt_i > Len(gt_dirs)
    /\ gt_pc' = "returned"
    /\ gt_ret' = <<"None">>
    /\ UNCHANGED <<gt_file, gt_repos, gt_dirs, gt_i, gt_log, gt_results, gt_changes_exist,
                   gt_exit, nonGitVars>>

NextAutoCommit ==
    \/ AutoCommitNotFound
    \/ \E fd \in FdOutcomes :
            \/ AutoCommitFdRaises(fd)
            \/ AutoCommitSkips(fd)
            \/ \E git \in GitOutcomes :
                    \/ AutoCommitGitRaises(fd, git)
                    \/ AutoCommitNoChanges(fd, git)
            \/ \E add \in CommitOutcomes, commit \in CommitOutcomes,
                  push \in CommitOutcomes :
                    AutoCommitCommits(fd, add, commit, push)
    \/ AutoCommitReturns

SpecAutoCommit == InitAutoCommit /\ [][NextAutoCommit]_vars

(***************************************************************************)
(* The git utility: status_all_git_dirs and main --status_all_dirs         *)
(***************************************************************************)

\* HOME, where find_git_directories runs fd.
Home == 0

InitStatus ==
    /\ gt_pc = "main"
    /\ gt_file = "test.py"
    /\ \E n \in 0..MaxRepos : gt_repos \in [1..n -> Directories \ {NoDirectory}]
    /\ gt_dirs = <<>>
    /\ gt_i = 1
    /\ gt_log = <<>>
    /\ gt_results = <<>>
    /\ gt_changes_exist = FALSE
    /\ gt_ret = <<>>
    /\ gt_exit = <<>>
    /\ FlakeIdle
    /\ MainIdle
    /\ CompareIdle
    /\ BookmarksIdle
    /\ ReleaseIdle
    /\ InputsIdle

\* find_git_directories: the parents of the .git directories fd prints, [] when
\* fd fails.
find_git_directories(repos, outcome) ==
    IF ExitCode(outcome) # 0 THEN <<>> ELSE AllOf(Len(repos))

\* status_all_git_dirs finds no repository and returns False.
StatusFindsNone(fd) ==
    /\ gt_pc = "main"
    /\ find_git_directories(gt_repos, fd) = <<>>
    /\ gt_log' = Append(gt_log, Ran(Home, "fd", fd))
    /\ gt_pc' = "returned"
    /\ gt_ret' = <<FALSE>>
    /\ UNCHANGED <<gt_file, gt_repos, gt_dirs, gt_i, gt_results, gt_changes_exist, gt_exit,
                   nonGitVars>>

\* status_all_git_dirs finds repositories and enters its loop.
StatusFinds(fd) ==
    /\ gt_pc = "main"
    /\ find_git_directories(gt_repos, fd) # <<>>
    /\ gt_log' = Append(gt_log, Ran(Home, "fd", fd))
    /\ gt_pc' = "status_all_git_dirs"
    /\ gt_dirs' = find_git_directories(gt_repos, fd)
    /\ gt_i' = 1
    /\ gt_results' = <<>>
    /\ gt_changes_exist' = FALSE
    /\ UNCHANGED <<gt_file, gt_repos, gt_ret, gt_exit, nonGitVars>>

AtRepo ==
    /\ gt_pc = "status_all_git_dirs"
    /\ gt_i <= Len(gt_dirs)

\* The loop of status_all_git_dirs: changes_count > 0.
StatusRepoChanged(git) ==
    /\ AtRepo
    /\ get_git_status(gt_repos[gt_dirs[gt_i]], git) > 0
    /\ gt_log' = gt_log \o <<Ran(gt_dirs[gt_i], "git status", git),
                             Ran(gt_dirs[gt_i], "git status -sb", git)>>
    /\ gt_changes_exist' = TRUE
    /\ gt_results' = Append(gt_results, "changes")
    /\ gt_i' = gt_i + 1
    /\ UNCHANGED <<gt_pc, gt_file, gt_repos, gt_dirs, gt_ret, gt_exit, nonGitVars>>

\* The loop of status_all_git_dirs: changes_count is 0.
StatusRepoClean(git) ==
    /\ AtRepo
    /\ get_git_status(gt_repos[gt_dirs[gt_i]], git) = 0
    /\ gt_log' = Append(gt_log, Ran(gt_dirs[gt_i], "git status", git))
    /\ gt_results' = Append(gt_results, "clean")
    /\ gt_i' = gt_i + 1
    /\ UNCHANGED <<gt_pc, gt_file, gt_repos, gt_dirs, gt_changes_exist, gt_ret, gt_exit,
                   nonGitVars>>

\* status_all_git_dirs: return changes_exist.
StatusReturns ==
    /\ gt_pc = "status_all_git_dirs"
    /\ gt_i > Len(gt_dirs)
    /\ gt_pc' = "returned"
    /\ gt_ret' = <<gt_changes_exist>>
    /\ UNCHANGED <<gt_file, gt_repos, gt_dirs, gt_i, gt_log, gt_results, gt_changes_exist,
                   gt_exit, nonGitVars>>

\* Mutant of StatusExitCode: status 0 whenever status_all_git_dirs returned.
StatusExitCode_zeroOnReturn(changes) == 0

\* main: if status_all_git_dirs(): sys.exit(0)  # Changes exist
\*       else: sys.exit(1)  # No changes
StatusExitCode(changes) == IF changes THEN 0 ELSE 1

MainStatusExits ==
    /\ gt_pc = "returned"
    /\ gt_pc' = "exited"
    /\ gt_exit' = <<StatusExitCode(gt_ret[1])>>
    /\ UNCHANGED <<gt_file, gt_repos, gt_dirs, gt_i, gt_log, gt_results, gt_changes_exist,
                   gt_ret, nonGitVars>>

NextStatus ==
    \/ \E fd \in FdOutcomes :
            \/ StatusFindsNone(fd)
            \/ StatusFinds(fd)
    \/ \E git \in GitOutcomes :
            \/ StatusRepoChanged(git)
            \/ StatusRepoClean(git)
    \/ StatusReturns
    \/ MainStatusExits

SpecStatus == InitStatus /\ [][NextStatus]_vars

(***************************************************************************)
(* The git utility: create_and_push_gh_repo                                *)
(***************************************************************************)

\* The three commands, in order.
Commands == <<"gh repo create", "git push", "gh browse">>

InitCreate ==
    /\ gt_pc = "create_and_push_gh_repo"
    /\ gt_file \in {"test.py", "git_util.py"}
    /\ \E dir \in Directories : gt_repos = <<dir>>
    /\ gt_dirs = <<1>>
    /\ gt_i = 1
    /\ gt_log = <<>>
    /\ gt_results = <<>>
    /\ gt_changes_exist = FALSE
    /\ gt_ret = <<>>
    /\ gt_exit = <<>>
    /\ FlakeIdle
    /\ MainIdle
    /\ CompareIdle
    /\ BookmarksIdle
    /\ ReleaseIdle
    /\ InputsIdle

\* repo_dir is not a directory.
CreateDirectoryMissing ==
    /\ gt_pc = "create_and_push_gh_repo"
    /\ ~gt_repos[1].exists
    /\ gt_pc' = "returned"
    /\ gt_ret' = <<FALSE>>
    /\ UNCHANGED <<gt_file, gt_repos, gt_dirs, gt_i, gt_log, gt_results, gt_changes_exist,
                   gt_exit, nonGitVars>>

AtCommand ==
    /\ gt_pc = "create_and_push_gh_repo"
    /\ gt_repos[1].exists
    /\ gt_i <= Len(Commands)

\* gh repo create or git push succeeds: on to the next command.
CreateStepSucceeds ==
    /\ AtCommand
    /\ gt_i < Len(Commands)
    /\ gt_log' = Append(gt_log, Ran(1, Commands[gt_i], "ok"))
    /\ gt_i' = gt_i + 1
    /\ UNCHANGED <<gt_pc, gt_file, gt_repos, gt_dirs, gt_results, gt_changes_exist, gt_ret,
                   gt_exit, nonGitVars>>

\* gh repo create or git push fails or is not installed: test.py finds
\* exit_code != 0 and returns False; git_util.py catches CalledProcessError or
\* FileNotFoundError and returns False.
CreateStepFails(outcome) ==
    /\ AtCommand
    /\ gt_i < Len(Commands)
    /\ outcome # "ok"
    /\ gt_log' = Append(gt_log, Ran(1, Commands[gt_i], outcome))
    /\ gt_pc' = "returned"
    /\ gt_ret' = <<FALSE>>
    /\ UNCHANGED <<gt_file, gt_repos, gt_dirs, gt_i, gt_results, gt_changes_exist, gt_exit,
                   nonGitVars>>

\* What the function returns after gh browse: test.py only warns when the exit
\* code is not 0 ("Don't return False here as the main operations succeeded");
\* git_util.py runs it with check=True and returns False from the handlers.
AfterBrowse(file, outcome) ==
    IF file = "test.py" THEN TRUE ELSE outcome = "ok"

\* gh browse runs and the function returns.
CreateBrowses(outcome) ==
    /\ AtCommand
    /\ gt_i = Len(Commands)
    /\ gt_log' = Append(gt_log, Ran(1, Commands[gt_i], outcome))
    /\ gt_pc' = "returned"
    /\ gt_ret' = <<AfterBrowse(gt_file, outcome)>>
    /\ UNCHANGED <<gt_file, gt_repos, gt_dirs, gt_i, gt_results, gt_changes_exist, gt_exit,
                   nonGitVars>>

\* main: test.py calls sys.exit(0 if success else 1); git_util.py drops the
\* result and ends with status 0.
MainCreateExits ==
    /\ gt_pc = "returned"
    /\ gt_pc' = "exited"
    /\ gt_exit' = IF gt_file = "test.py" /\ ~gt_ret[1] THEN <<1>> ELSE <<0>>
    /\ UNCHANGED <<gt_file, gt_repos, gt_dirs, gt_i, gt_log, gt_results, gt_changes_exist,
                   gt_ret, nonGitVars>>

NextCreate ==
    \/ CreateDirectoryMissing
    \/ CreateStepSucceeds
    \/ \E outcome \in GitOutcomes :
            \/ CreateStepFails(outcome)
            \/ CreateBrowses(outcome)
    \/ MainCreateExits

SpecCreate == InitCreate /\ [][NextCreate]_vars

(***************************************************************************)
(* release.py: suggest_next_version                                        *)
(***************************************************************************)

MaxTagLen == 6

\* str(n) of a natural number.
RECURSIVE IntToStr(_)
IntToStr(n) ==
    IF n < 10 THEN <<CHOOSE c \in Digits : DigitValue(c) = n>>
    ELSE IntToStr(n \div 10) \o <<CHOOSE c \in Digits : DigitValue(c) = n % 10>>

\* re.match(r"v?(\d+)\.(\d+)\.(\d+)", tag): the match starts at the first
\* character and need not reach the last one; every \d+ takes the whole run of
\* digits.  The result is <<>> (no match) or <<groups>>, the three groups.
TagMatch(tag) ==
    LET a  == IF tag # <<>> /\ tag[1] = "v" THEN 2 ELSE 1
        n1 == DigitRun(tag, a)
        b  == a + n1 + 1
        n2 == DigitRun(tag, b)
        c  == b + n2 + 1
        n3 == DigitRun(tag, c)
    IN  IF /\ n1 > 0
           /\ b - 1 <= Len(tag) /\ tag[b - 1] = "."
           /\ n2 > 0
           /\ c - 1 <= Len(tag) /\ tag[c - 1] = "."
           /\ n3 > 0
        THEN <<<<SubSeq(tag, a, a + n1 - 1), SubSeq(tag, b, b + n2 - 1),
                 SubSeq(tag, c, c + n3 - 1)>>>>
        ELSE <<>>

\* f"v{a}.{b}.{c}"
FormatVersion(a, b, c) ==
    <<"v">> \o IntToStr(a) \o <<".">> \o IntToStr(b) \o <<".">> \o IntToStr(c)

Major == <<"m", "a", "j", "o", "r">>

Minor == <<"m", "i", "n", "o", "r">>

Patch == <<"p", "a", "t", "c", "h">>

FallbackVersion(release_type) ==
    IF release_type = Major THEN FormatVersion(1, 0, 0)
    ELSE IF release_type = Minor THEN FormatVersion(0, 1, 0)
    ELSE IF release_type = Patch THEN FormatVersion(0, 0, 1)
    ELSE FormatVersion(0, 1, 0)

\* Mutant of suggest_next_version: a major or minor release keeps the lower
\* components instead of resetting them to 0.
suggest_next_version_noReset(release_type, latest_tag) ==
    LET match == IF latest_tag \in {None, <<>>} THEN <<>> ELSE TagMatch(latest_tag)
    IN  IF match # <<>> /\ release_type \in {Major, Minor, Patch}
        THEN LET major == ToInt(match[1][1])
                 minor == ToInt(match[1][2])
                 patch == ToInt(match[1][3])
             IN  IF release_type = Major THEN FormatVersion(major + 1, minor, patch)
                 ELSE IF release_type = Minor THEN FormatVersion(major, minor + 1, patch)
                 ELSE FormatVersion(major, minor, patch + 1)
        ELSE FallbackVersion(release_type)

\* suggest_next_version: `if latest_tag:` is false for None and for "".
suggest_next_version(release_type, latest_tag) ==
    LET match == IF latest_tag \in {None, <<>>} THEN <<>> ELSE TagMatch(latest_tag)
    IN  IF match # <<>> /\ release_type \in {Major, Minor, Patch}
        THEN LET major == ToInt(match[1][1])
                 minor == ToInt(match[1][2])
                 patch == ToInt(match[1][3])
             IN  IF release_type = Major THEN FormatVersion(major + 1, 0, 0)
                 ELSE IF release_type = Minor THEN FormatVersion(major, minor + 1, 0)
                 ELSE FormatVersion(major, minor, patch + 1)
        ELSE FallbackVersion(release_type)

TagChars == {"v", "0", "9", "."}

\* The tags git describe may print, and None.
Tags == StringsUpTo(TagChars, MaxTagLen) \cup {None}

\* The release types main passes, and one it never passes.
ReleaseTypeArguments == {Major, Minor, Patch, <<"x">>}

InitSuggest ==
    /\ rl_pc = "suggest"
    /\ rl_latest_tag \in Tags
    /\ rl_release_type \in ReleaseTypeArguments
    /\ rl_version = <<>>
    /\ rl_answers = <<>>
    /\ rl_confirm = <<>>
    /\ rl_log = <<>>
    /\ rl_exit = <<>>
    /\ FlakeIdle
    /\ MainIdle
    /\ CompareIdle
    /\ BookmarksIdle
    /\ GitIdle
    /\ InputsIdle

SuggestNextVersion ==
    /\ rl_pc = "suggest"
    /\ rl_pc' = "suggested"
    /\ rl_version' = suggest_next_version(rl_release_type, rl_latest_tag)
    /\ UNCHANGED <<rl_latest_tag, rl_release_type, rl_answers, rl_confirm, rl_log, rl_exit,
                   nonReleaseVars>>

NextSuggest == SuggestNextVersion

SpecSuggest == InitSuggest /\ [][NextSuggest]_vars

(***************************************************************************)
(* release.py: main                                                        *)
(***************************************************************************)

MaxPrompts == 2

\* str.lower() on the letters the answers are typed with.
LowerChar(c) ==
    CASE c = "Y" -> "y" [] c = "E" -> "e" [] c = "S" -> "s" [] c = "N" -> "n"
      [] c = "O" -> "o" [] c = "M" -> "m" [] c = "P" -> "p" [] OTHER -> c

Lower(s) == [i \in 1..Len(s) |-> LowerChar(s[i])]

Yes == <<"y", "e", "s">>

\* What the user may type at the release-type prompt.
ReleaseTypeInputs ==
    {Major, Minor, Patch, <<" ", "M", "i", "n", "o", "r">>, <<"P", "A", "T", "C", "H", " ">>, <<"m">>, <<"m", "a", "j", "o", "r", "s">>, <<>>}

\* What the user may type at the confirmation prompt.
ConfirmInputs ==
    {Yes, <<" ", "Y", "E", "S", " ">>, <<"Y", "e", "s">>, <<"y">>, <<"n", "o">>, <<"y", "e", "s", "!">>, <<>>}

\* release_type in ["major", "minor", "patch"], after .strip().lower()
IsReleaseType(input) == Lower(Strip(input)) \in {Major, Minor, Patch}

\* Mutant of Confirms: an answer that starts with y confirms.
Confirms_startsWithY(input) ==
    LET confirm == Lower(Strip(input)) IN confirm # <<>> /\ confirm[1] = "y"

\* not (confirm != "yes"), after .strip().lower()
Confirms(input) == Lower(Strip(input)) = Yes

\* The tags main may find: none, two that read as versions, one that does not.
MainTags == {None, <<"v", "9", ".", "9", ".", "9">>, <<"0", ".", "9", ".", "0">>, <<"9", ".", "9">>}

\* The commands main runs after the confirmation, in the order of the text.
ReleaseCommands ==
    <<"git cliff --tag VERSION -o CHANGELOG.md", "git add CHANGELOG.md",
      "git commit -m 'chore(release): update changelog for VERSION'",
      "git tag VERSION", "git push", "git push --tags">>

\* Mutant of run_cmd: a failing command is reported and the script carries on.
run_cmd_carriesOn(outcome) == "returns"

\* run_cmd: subprocess.run(cmd, shell=True, check=True); CalledProcessError is
\* caught, printed, and sys.exit(1) is called.
run_cmd(outcome) == IF outcome = "ok" THEN "returns" ELSE "exits"

InitRelease ==
    /\ rl_pc = "start"
    /\ rl_latest_tag = None
    /\ rl_release_type = <<>>
    /\ rl_version = <<>>
    /\ rl_answers = <<>>
    /\ rl_confirm = <<>>
    /\ rl_log = <<>>
    /\ rl_exit = <<>>
    /\ FlakeIdle
    /\ MainIdle
    /\ CompareIdle
    /\ BookmarksIdle
    /\ GitIdle
    /\ InputsIdle

\* change_to_repo_root: git rev-parse --show-toplevel; CalledProcessError is
\* caught (sys.exit(1)), a missing git ends the script with a traceback.
ChangeToRepoRoot(outcome) ==
    /\ rl_pc = "start"
    /\ rl_pc' = IF outcome = "ok" THEN "latest_tag" ELSE "exited"
    /\ rl_exit' = IF outcome = "ok" THEN rl_exit ELSE <<1>>
    /\ UNCHANGED <<rl_latest_tag, rl_release_type, rl_version, rl_answers, rl_confirm,
                   rl_log, nonReleaseVars>>

\* get_latest_tag: the stripped output of git describe --tags --abbrev=0, or None
\* when the command fails (run_cmd's SystemExit is caught).
GetLatestTag(tag) ==
    /\ rl_pc = "latest_tag"
    /\ tag \in MainTags
    /\ rl_pc' = "release_type"
    /\ rl_latest_tag' = tag
    /\ UNCHANGED <<rl_release_type, rl_version, rl_answers, rl_confirm, rl_log, rl_exit,
                   nonReleaseVars>>

\* The release-type prompt: an answer that is no release type, the prompt comes again.
ReleaseTypeRejected(input) ==
    /\ rl_pc = "release_type"
    /\ Len(rl_answers) < MaxPrompts
    /\ ~IsReleaseType(input)
    /\ rl_answers' = Append(rl_answers, input)
    /\ UNCHANGED <<rl_pc, rl_latest_tag, rl_release_type, rl_version, rl_confirm, rl_log,
                   rl_exit, nonReleaseVars>>

\* The release-type prompt: a release type; version = suggest_next_version(...).
ReleaseTypeAccepted(input) ==
    /\ rl_pc = "release_type"
    /\ IsReleaseType(input)
    /\ rl_answers' = Append(rl_answers, input)
    /\ rl_release_type' = Lower(Strip(input))
    /\ rl_version' = suggest_next_version(rl_release_type', rl_latest_tag)
    /\ rl_pc' = "confirm"
    /\ UNCHANGED <<rl_latest_tag, rl_confirm, rl_log, rl_exit, nonReleaseVars>>

\* input() raises EOFError at one of the prompts; nothing catches it.
InputEnds ==
    /\ rl_pc \in {"release_type", "confirm"}
    /\ rl_pc' = "exited"
    /\ rl_exit' = <<1>>
    /\ UNCHANGED <<rl_latest_tag, rl_release_type, rl_version, rl_answers, rl_confirm,
                   rl_log, nonReleaseVars>>

\* The confirmation prompt: "Release aborted.", sys.exit(0).
ConfirmDeclined(input) ==
    /\ rl_pc = "confirm"
    /\ ~Confirms(input)
    /\ rl_confirm' = <<input>>
    /\ rl_pc' = "exited"
    /\ rl_exit' = <<0>>
    /\ UNCHANGED <<rl_latest_tag, rl_release_type, rl_version, rl_answers, rl_log,
                   nonReleaseVars>>

\* The confirmation prompt: the release goes ahead.
ConfirmAccepted(input) ==
    /\ rl_pc = "confirm"
    /\ Confirms(input)
    /\ rl_confirm' = <<input>>
    /\ rl_pc' = "release"
    /\ UNCHANGED <<rl_latest_tag, rl_release_type, rl_version, rl_answers, rl_log, rl_exit,
                   nonReleaseVars>>

\* The next run_cmd(...) of main; after the last one main returns.
ReleaseStep(outcome) ==
    /\ rl_pc = "release"
    /\ Len(rl_log) < Len(ReleaseCommands)
    /\ rl_log' = Append(rl_log, [cmd |-> ReleaseCommands[Len(rl_log) + 1],
                                 version |-> rl_version, outcome |-> outcome])
    /\ IF run_cmd(outcome) = "exits"
       THEN rl_pc' = "exited" /\ rl_exit' = <<1>>
       ELSE IF Len(rl_log') = Len(ReleaseCommands)
       THEN rl_pc' = "returned" /\ rl_exit' = <<0>>
       ELSE UNCHANGED <<rl_pc, rl_exit>>
    /\ UNCHANGED <<rl_latest_tag, rl_release_type, rl_version, rl_answers, rl_confirm,
                   nonReleaseVars>>

NextRelease ==
    \/ \E outcome \in GitOutcomes : ChangeToRepoRoot(outcome)
    \/ \E tag \in MainTags : GetLatestTag(tag)
    \/ \E input \in ReleaseTypeInputs :
            \/ ReleaseTypeRejected(input)
            \/ ReleaseTypeAccepted(input)
    \/ \E input \in ConfirmInputs :
            \/ ConfirmDeclined(input)
            \/ ConfirmAccepted(input)
    \/ InputEnds
    \/ \E outcome \in {"ok", "error"} : ReleaseStep(outcome)

SpecRelease == InitRelease /\ [][NextRelease]_vars

(***************************************************************************)
(* flake-freshness.py: extract_input_info                                  *)
(***************************************************************************)

MaxLines == 2

PkgsDash == <<"p", "k", "g", "s", "-">>

DotUrl == <<".", "u", "r", "l">>

NixpkgsUrl == <<"g", "i", "t", "h", "u", "b", ":", "n", "i", "x", "o", "s", "/", "n", "i", "x", "p", "k", "g", "s", "/">>

\* The names and branches of the inputs of a flake.nix.
InputNameParts == {<<"s">>, <<>>}

InputBranches == {<<"u">>, <<"n">>}

\* What a line of flake.nix can be: the declaration of an input
\* pkgs-<name>.url = "github:nixos/nixpkgs/<branch>", the declaration of the
\* input nixpkgs, a comment that mentions such a declaration, or an input
\* pkgs-<name> from another repository.
LineKinds == {"input", "nixpkgs", "comment", "elsewhere"}

Lines == [kind : LineKinds, name : InputNameParts, branch : InputBranches]

\* The text of a line.
LineText(l) ==
    CASE l.kind = "input" ->
            <<" ", " ">> \o PkgsDash \o l.name \o DotUrl \o <<" ", "=", " ", "\"">> \o NixpkgsUrl
                \o l.branch \o <<"\"", ";">>
      [] l.kind = "nixpkgs" ->
            <<" ", " ">> \o <<"n", "i", "x", "p", "k", "g", "s">> \o DotUrl \o <<" ", "=", " ", "\"">> \o NixpkgsUrl
                \o l.branch \o <<"\"", ";">>
      [] l.kind = "comment" ->
            <<"#", " ">> \o PkgsDash \o l.name \o DotUrl \o <<" ">> \o NixpkgsUrl \o l.branch
      [] l.kind = "elsewhere" ->
            <<" ", " ">> \o PkgsDash \o l.name \o DotUrl \o <<" ", "=", " ", "\"">> \o <<"g", "i", "t", "h", "u", "b", ":", "o", "t", "h", "e", "r", "/", "n", "i", "x", "p", "k", "g", "s", "/">>
                \o l.branch \o <<"\"", ";">>

\* The text of a flake.nix with the given lines.
FlakeText(lines) ==
    Join([i \in 1..Len(lines) |-> LineText(lines[i])], <<"\n">>) \o <<"\n">>

\* sub in s
Contains(s, sub) == Find(s, sub) # 0

\* The first test of the loop: the literal text 'pkgs-.' must be in the line.
LineIsInput(line) ==
    /\ Contains(line, PkgsDash \o <<".">>)
    /\ Contains(line, <<"u", "r", "l">>)
    /\ Contains(line, NixpkgsUrl)

\* The loop over content.split('\n'): the list `branches`.
RECURSIVE Branches(_)
Branches(lines) ==
    IF lines = <<>> THEN <<>>
    ELSE LET line == Head(lines)
         IN  IF LineIsInput(line)
             THEN <<[input |-> PkgsDash \o Split(Split(line, PkgsDash)[2], DotUrl)[1],
                     branch |-> Split(Split(line, NixpkgsUrl)[2], <<"\"">>)[1]]>>
                  \o Branches(Tail(lines))
             ELSE Branches(Tail(lines))

\* The last loop: input_info[input_name] = {"branch": ..., "locked_rev": ...};
\* locks maps an input name to its locked rev, None when the node, its "locked"
\* or its "rev" is missing.
RECURSIVE CombineInfo(_, _, _)
CombineInfo(branches, locks, input_info) ==
    IF branches = <<>> THEN input_info
    ELSE LET input_name == Head(branches).input
             locked_rev == DictGet(locks, input_name, None)
         IN  CombineInfo(Tail(branches), locks,
                         DictSet(input_info, input_name,
                                 [branch |-> Head(branches).branch,
                                  locked_rev |-> locked_rev]))

\* extract_input_info: {} when nix flake metadata fails or prints no JSON.
extract_input_info(content, metadata) ==
    LET branches == Branches(Split(Strip(content), <<"\n">>))
    IN  IF metadata.outcome # "ok" THEN <<>>
        ELSE CombineInfo(branches, metadata.locks, <<>>)

\* The input names the lock file can know.
LockedInputs == { PkgsDash \o name : name \in InputNameParts }

\* The answers of nix flake metadata --json: a failure, text that is no JSON, or
\* the locks, each input with its rev or without.
Metadata ==
    [outcome : {"error", "garbled"}, locks : {<<>>}] \cup
    [outcome : {"ok"}, locks : [LockedInputs -> {None, <<"r">>}]]

InitInputs ==
    /\ fi_pc = "extract"
    /\ \E n \in 0..MaxLines : fi_lines \in [1..n -> Lines]
    /\ fi_content = FlakeText(fi_lines)
    /\ fi_metadata \in Metadata
    /\ fi_info = <<>>
    /\ FlakeIdle
    /\ MainIdle
    /\ CompareIdle
    /\ BookmarksIdle
    /\ GitIdle
    /\ ReleaseIdle

ExtractInputInfo ==
    /\ fi_pc = "extract"
    /\ fi_pc' = "returned"
    /\ fi_info' = extract_input_info(fi_content, fi_metadata)
    /\ UNCHANGED <<fi_lines, fi_content, fi_metadata, nonInputVars>>

NextInputs == ExtractInputInfo

SpecInputs == InitInputs /\ [][NextInputs]_vars

(***************************************************************************)
(* Claims about the cache (checked under SpecCache and Spec)               *)
(***************************************************************************)

\* A logged read_cache found no file, or a file at least ttl seconds old.
ExpiredOrAbsent(e) == ~e.file.exists \/ e.at - e.file.mtime >= CacheTtl

\* A logged read_cache found a file younger than ttl seconds.
WithinTtl(e) == e.file.exists /\ e.at - e.file.mtime < CacheTtl

\* C1: write_cache(k, v) followed by read_cache(k) while the entry's age is below
\* the TTL, with no other write to k in between, returns exactly v.
C1_RoundTrip ==
    (/\ pc = "returned"
     /\ last.fn = "read_cache"
     /\ written[last.key].set
     /\ WithinTtl(calls[1]))
        => last.ret = written[last.key].value

\* C3: the cache is a flat key-to-value map: a write_cache to a key string k2
\* never changes what read_cache(k) returns for any other key string k.
C3_OtherKeysUntouched ==
    [][(pc = "idle" /\ pc' = "returned" /\ last'.fn = "write_cache")
        => \A k \in CacheKeys \ {last'.key} :
              read_cache(cache', k, now') = read_cache(cache, k, now)]_vars

\* stdout.strip() of a successful eval, "not found" of a failed one.
VersionOf(out) == IF out.exit_code = 0 THEN Strip(out.stdout) ELSE NotFound

\* C2: read_cache(k) returns None whenever the entry for k is absent or its age is
\* not strictly less than the TTL of 3600 seconds, and get_package_version and
\* get_batch_package_versions never return a value taken from such an entry: what
\* they return as cached was read from an entry within the TTL, and everything
\* else comes from a nix eval of the same call.
C2_ExpiredEntriesAreNotServed ==
    pc = "returned" =>
        /\ CacheTtl = 3600
        /\ \A i \in 1..Len(calls) :
              (calls[i].fn = "read_cache" /\ ExpiredOrAbsent(calls[i]))
                  => calls[i].result = None
        /\ (last.fn = "get_package_version" /\ last.use_cache
                /\ ExpiredOrAbsent(calls[1]))
              => /\ Len(calls) >= 2
                 /\ calls[2].fn = "nix_eval"
                 /\ IF tool = "health"
                    THEN last.ret = <<VersionOf(calls[2].out), FALSE>>
                    ELSE last.ret = VersionOf(calls[2].out)
        /\ last.fn = "get_batch_package_versions"
              => \A p \in DOMAIN last.ret :
                    IF last.ret[p][2]
                    THEN \E i \in 1..Len(calls) :
                            /\ calls[i].fn = "read_cache"
                            /\ calls[i].key = cache_key(last.flake_ref, last.input_name, p)
                            /\ WithinTtl(calls[i])
                            /\ calls[i].result = last.ret[p][1]
                    ELSE \E i \in 1..Len(calls) :
                            /\ calls[i].fn = "nix_eval"
                            /\ p \in Range(calls[i].cmd.packages)

\* get_package_version found an entry exactly 3600 seconds old and asked nix.
C2_Witness ==
    /\ pc = "returned"
    /\ last.fn = "get_package_version"
    /\ last.use_cache
    /\ calls[1].file.exists
    /\ calls[1].at - calls[1].file.mtime = 3600
    /\ calls[1].result = None
    /\ calls[2].fn = "nix_eval"

\* C20: under Spec no cache file holds "not found" and no write_cache was
\* called with it, whatever the lookups and their nix evals did; so a lookup
\* that returns "not found" has not taken it from the cache.
C20_NotFoundIsNeverCached ==
    /\ \A path \in CachePaths :
          cache[path].exists => JsonLoad(cache[path].text) # NotFound
    /\ \A i \in 1..Len(calls) :
          calls[i].fn = "write_cache" => calls[i].value # NotFound
    /\ (pc = "returned" /\ last.fn = "get_package_version") =>
          /\ (tool = "health" /\ last.ret[1] = NotFound) => ~last.ret[2]
          /\ (IF tool = "health" THEN last.ret[1] ELSE last.ret) = NotFound =>
                \E i \in 1..Len(calls) : calls[i].fn = "nix_eval"
    /\ (pc = "returned" /\ last.fn = "get_batch_package_versions") =>
          \A p \in DOMAIN last.ret :
              last.ret[p][1] = NotFound =>
                  /\ ~last.ret[p][2]
                  /\ \E i \in 1..Len(calls) : calls[i].fn = "nix_eval"

\* C20 happens: a batch lookup with the cache in use got "not found" for a
\* package from the JSON of a successful nix eval, and the package has no cache
\* file afterwards.
C20_Witness ==
    /\ pc = "returned"
    /\ last.fn = "get_batch_package_versions"
    /\ last.use_cache
    /\ \E i \in 1..Len(calls) :
          /\ calls[i].fn = "nix_eval"
          /\ calls[i].cmd.kind = "batch"
          /\ calls[i].out.exit_code = 0
          /\ calls[i].out.valid_json
    /\ \E p \in DOMAIN last.ret :
          /\ last.ret[p] = <<NotFound, FALSE>>
          /\ ~cache[get_cache_path(cache_key(last.flake_ref, last.input_name, p))].exists

\* The packages named in the batch expression the returned call had nix evaluate.
BatchEvaluated ==
    UNION { Range(calls[i].cmd.packages) :
              i \in { j \in 1..Len(calls) :
                        calls[j].fn = "nix_eval" /\ calls[j].cmd.kind = "batch" } }

\* The packages for which a read_cache of the returned call found a valid entry.
ServedFromCache ==
    { p \in Packages :
        \E i \in 1..Len(calls) :
            /\ calls[i].fn = "read_cache"
            /\ calls[i].key = cache_key(last.flake_ref, last.input_name, p)
            /\ calls[i].result # None }

\* C21: the dictionary get_batch_package_versions returns has exactly the packages
\* passed in as its keys, whatever the cache held and whatever the batch eval
\* did; a package served from a valid cache entry carries from_cache = True, and
\* a package that carries from_cache = True was not in the batch expression.
C21_KeysAndCacheHits ==
    (pc = "returned" /\ last.fn = "get_batch_package_versions") =>
        /\ DOMAIN last.ret = Range(last.packages)
        /\ \A p \in ServedFromCache : last.ret[p][2]
        /\ \A p \in DOMAIN last.ret : last.ret[p][2] => p \notin BatchEvaluated

\* Where in the log of the returned call the batch evals are.
BatchEvals ==
    { i \in 1..Len(calls) : calls[i].fn = "nix_eval" /\ calls[i].cmd.kind = "batch" }

\* The batch eval at i exited non-zero or printed something that is no JSON.
BatchEvalFailed(i) == calls[i].out.exit_code # 0 \/ ~calls[i].out.valid_json

\* The log entry opens a get_package_version call: its read_cache when the cache
\* is in use, its nix eval otherwise.
OpensLookup(call) ==
    IF last.use_cache THEN call.fn = "read_cache"
    ELSE call.fn = "nix_eval" /\ call.cmd.kind = "expr"

\* The package a get_package_version call opened by that log entry is about.
LookupOf(call) ==
    IF call.fn = "read_cache"
    THEN CHOOSE p \in Packages :
            call.key = cache_key(last.flake_ref, last.input_name, p)
    ELSE call.cmd.packages[1]

\* The packages of the get_package_version calls made after log entry i, in the
\* order of the calls.
LookupsAfter(i) ==
    LET opened == SelectSeq(SubSeq(calls, i + 1, Len(calls)), OpensLookup)
    IN  [k \in 1..Len(opened) |-> LookupOf(opened[k])]

\* A package of the list that the cache check before log entry i did not serve.
NotYetCached(p) ==
    ~last.use_cache
    \/ \E j \in 1..Len(calls) :
          /\ j < CHOOSE i \in BatchEvals : TRUE
          /\ calls[j].fn = "read_cache"
          /\ calls[j].key = cache_key(last.flake_ref, last.input_name, p)
          /\ calls[j].result = None

\* Log entry j belongs to the last get_package_version call made for its package:
\* no later entry opens another one for it (a name can be in the list twice).
InLastLookup(j, package) ==
    \A k \in (j + 1)..Len(calls) :
        OpensLookup(calls[k]) => LookupOf(calls[k]) # package

HandledFailures == {"flake_not_found", "config_not_found", "config_invalid"}

\* C7: when a flake tool hits a handled failure (flake.nix does not exist, the
\* packages config cannot be found, the config has no valid [packages] section) the
\* process exits with status 1; it exits with status 0 only on success.
C7_HandledFailureExitsOne ==
    pc = "exited" =>
        IF run.error \in HandledFailures
        THEN exit_code = 1
        ELSE exit_code = 0 => run.error \in {"none", "no_packages"}

\* C8: a run with --no-cache never calls read_cache or write_cache (all its lookups
\* do is evaluate nix), every from_cache flag it gets is False, and no step of the
\* run changes the cache directory.
C8_NoCacheRunLeavesCacheAlone ==
    [][run'.no_cache =>
        /\ cache' = cache
        /\ \A i \in 1..Len(calls') : calls'[i].fn = "nix_eval"
        /\ \A p \in DOMAIN run'.current_versions : ~run'.current_versions[p][2]
        /\ tool = "health" =>
              \A i \in 1..Len(run'.results) :
                  ~run'.results[i].current_cached /\ ~run'.results[i].latest_cached]_vars

\* A --no-cache run of main.py has finished: its last lookup was an individual
\* nix eval that found a version, for a package whose cache file exists.
C8_Witness ==
    /\ pc = "exited"
    /\ tool = "health"
    /\ run.no_cache
    /\ run.error = "none"
    /\ \E i \in 1..Len(calls) :
          /\ calls[i].fn = "nix_eval"
          /\ calls[i].cmd.kind = "expr"
          /\ calls[i].out.exit_code = 0
          /\ cache[get_cache_path(cache_key(calls[i].cmd.flake_ref,
                                            calls[i].cmd.input_name,
                                            calls[i].cmd.packages[1]))].exists

(***************************************************************************)
(* Claims about bookmarks.py (checked under SpecExtract)                   *)
(***************************************************************************)

\* A dict node with type == "url" that has both a "name" and a "url" key.
IsUrlNode(node) ==
    node.kind = "dict" /\ node.type = TypeUrl /\ node.name # None /\ node.url # None

\* C9: the Brave extraction returns exactly one (name, url) pair for each dict node
\* with type == "url" and both keys, in document order, and no other pair.
C9_OnePairPerUrlNode ==
    bm_pc = "extracted" =>
        LET ids == SelectSeq([i \in 1..Len(bm_data.node) |-> i],
                             LAMBDA i : IsUrlNode(bm_data.node[i]))
        IN  /\ Len(bm_bookmarks) = Len(ids)
            /\ \A k \in 1..Len(ids) :
                  bm_bookmarks[k] = <<bm_data.node[ids[k]].name, bm_data.node[ids[k]].url>>

\* Extracted: a bookmark inside a bookmark, and in a list a dict of type "url"
\* that lacks a key.
C9_Witness ==
    /\ bm_pc = "extracted"
    /\ \E i, j \in 1..Len(bm_data.node) :
          /\ bm_data.parent[j] = i
          /\ IsUrlNode(bm_data.node[i])
          /\ IsUrlNode(bm_data.node[j])
    /\ \E i, j \in 1..Len(bm_data.node) :
          /\ bm_data.parent[j] = i
          /\ bm_data.node[i].kind = "list"
          /\ bm_data.node[j].type = TypeUrl
          /\ ~IsUrlNode(bm_data.node[j])

\* C10: the string handed to the browser is exactly the url of the (title, url)
\* pair that produced the picked 'title - url' line, also when the title or the
\* url contains ' - ' (checked under SpecSelect).
C10_BrowserGetsPickedUrl ==
    bm_pc = "opened" => bm_argv[2] = bm_bookmarks[bm_pick][2]

Browsers == {"firefox", "brave"}

Component(parts, i) == IF i <= Len(parts) THEN parts[i] ELSE 0

\* a is lexicographically smaller than b once both are zero-padded to equal length.
LexSmaller(a, b) ==
    \E i \in 1..Max(Len(a), Len(b)) :
        /\ Component(a, i) < Component(b, i)
        /\ \A j \in 1..(i - 1) : Component(a, j) = Component(b, j)

\* C4: compare_versions(v, v) returns "equal" for every version v other than the
\* sentinel "not found", in both flake-freshness.py and nix_flake_health/main.py.
C4_Reflexive ==
    (cv_tool # "none" /\ cv_current = cv_latest /\ cv_current # NotFound)
        => cv_result = "equal"

\* A version with no numeric part at all was compared with itself by main.py.
C4_Witness ==
    /\ cv_tool = "health"
    /\ cv_current = <<"a", ".", "1">>
    /\ cv_latest = cv_current
    /\ cv_result = "equal"

\* C5: compare_versions returns "outdated" whenever both strings start with a
\* dotted-numeric part and current's numeric components, zero-padded to equal
\* length, are lexicographically smaller than latest's, whatever the suffixes.
C5_SmallerIsOutdated ==
    (/\ cv_tool # "none"
     /\ MatchLen(cv_current) > 0
     /\ MatchLen(cv_latest) > 0
     /\ LexSmaller(parse_version(cv_current).parts, parse_version(cv_latest).parts))
        => cv_result = "outdated"

\* main.py compared "1a" with "1.1": the padding decides, and the suffixes differ.
C5_Witness ==
    /\ cv_tool = "health"
    /\ cv_current = <<"1", "a">>
    /\ cv_latest = <<"1", ".", "1">>
    /\ cv_result = "outdated"

\* C6: compare_versions returns one of 'equal', 'outdated', 'unknown', and
\* 'unknown' if and only if current or latest is the sentinel "not found".
C6_ThreeValuesUnknownIffSentinel ==
    cv_tool # "none" =>
        /\ cv_result \in {"equal", "outdated", "unknown"}
        /\ (cv_result = "unknown") <=> (cv_current = NotFound \/ cv_latest = NotFound)

\* flake-freshness.py compared a real version with the sentinel as latest.
C6_Witness ==
    /\ cv_tool = "freshness"
    /\ cv_current = <<"1", ".", "0">>
    /\ cv_latest = NotFound
    /\ cv_result = "unknown"

(***************************************************************************)
(* Claims about the git utility                                            *)
(***************************************************************************)

CommitCommands == {"git add", "git commit", "git push"}

\* C12: under SpecAutoCommit no git add, git commit or git push has run in a
\* directory that holds a file above the limit, whatever fd's outcome was.
C12_NoCommitWithLargeFile ==
    \A k \in 1..Len(gt_log) :
        gt_log[k].cmd \in CommitCommands => ~gt_repos[gt_log[k].cwd].large

\* C13: under SpecStatus status_all_git_dirs returns True exactly if one of the
\* repositories it discovered has an uncommitted change.
C13_TrueIffSomeRepoChanged ==
    gt_ret # <<>> =>
        (gt_ret[1] <=> \E k \in 1..Len(gt_dirs) : gt_repos[gt_dirs[k]].changes > 0)

\* Every command of the run ended with exit status 0.
NoCommandFailed == \A k \in 1..Len(gt_log) : gt_log[k].outcome = "ok"

\* C14: under SpecStatus a run of --status_all_dirs in which every command
\* succeeded and no repository has uncommitted changes exits with status 0, and
\* exit status 1 comes only with a failed command.
C14_CleanStatusRunExitsZero ==
    gt_pc = "exited" =>
        /\ (NoCommandFailed /\ \A k \in 1..Len(gt_repos) : gt_repos[k].changes = 0)
                => gt_exit = <<0>>
        /\ gt_exit = <<1>> => ~NoCommandFailed

\* git status --porcelain succeeded in a repository and printed a change.
ChangesSeen ==
    \E k \in 1..Len(gt_log) :
        /\ gt_log[k].cmd = "git status"
        /\ gt_log[k].outcome = "ok"
        /\ gt_repos[gt_log[k].cwd].changes > 0

\* C14 as amended: under SpecStatus a run of --status_all_dirs exits with status
\* 0 if git status showed uncommitted changes in some repository and with status
\* 1 otherwise, also when every command succeeded and every repository is clean.
C14_ExitZeroIffChangesSeen ==
    gt_pc = "exited" => gt_exit = IF ChangesSeen THEN <<0>> ELSE <<1>>

\* C14 happens: repositories were found, every command succeeded, none has
\* uncommitted changes, and the run has exited (with status 1).
C14_Witness ==
    /\ gt_pc = "exited"
    /\ gt_dirs # <<>>
    /\ NoCommandFailed
    /\ \A k \in 1..Len(gt_repos) : gt_repos[k].changes = 0
    /\ gt_exit = <<1>>

\* C15: under SpecCreate create_and_push_gh_repo returns True exactly if gh repo
\* create, git push -u origin HEAD and gh browse all three ran and succeeded.
C15_TrueIffAllThreeSucceeded ==
    gt_ret # <<>> =>
        (gt_ret[1] <=> (/\ Len(gt_log) = Len(Commands)
                        /\ \A k \in 1..Len(gt_log) :
                              gt_log[k] = Ran(1, Commands[k], "ok")))

\* The statuses a row of the auto_commit summary can show.
SummaryStatuses == {"not found", "skipped (large files)", "no changes", "committed & pushed"}

\* git add, git commit and git push have run in the directory in that order and
\* each has exited with status 0.
CommittedAndPushed(path) ==
    \E a, b, c \in 1..Len(gt_log) :
        /\ a < b /\ b < c
        /\ gt_log[a] = Ran(path, "git add", gt_log[a].outcome)
        /\ gt_log[b] = Ran(path, "git commit", gt_log[b].outcome)
        /\ gt_log[c] = Ran(path, "git push", gt_log[c].outcome)
        /\ \A k \in {a, b, c} : ExitCode(gt_log[k].outcome) = 0

\* C23: when auto_commit of test.py has returned, its summary has one row per
\* input path, in input order, each with one of the four statuses, and a row
\* says "committed & pushed" only if git add, git commit and git push ran in
\* that directory in that order and each exited with status 0.
C23_SummaryRowsAndCommitted ==
    (gt_pc = "returned" /\ gt_file = "test.py") =>
        /\ Len(gt_results) = Len(gt_dirs)
        /\ \A k \in 1..Len(gt_results) :
              /\ gt_results[k].path = gt_dirs[k]
              /\ gt_results[k].status \in SummaryStatuses
              /\ gt_results[k].status = "committed & pushed" =>
                    CommittedAndPushed(gt_results[k].path)

(***************************************************************************)
(* Claims about release.py                                                 *)
(***************************************************************************)

IsNumber(s) == s # <<>> /\ \A i \in 1..Len(s) : s[i] \in Digits

\* The ways to read the start of tag as [v]X.Y.Z with whole numbers X, Y, Z (the
\* number Z not cut short): the set of <<X, Y, Z>>, as digit strings.
ReadAsVersion(tag) ==
    IF tag = None THEN {}
    ELSE { <<SubSeq(tag, a, i - 1), SubSeq(tag, i + 1, j - 1), SubSeq(tag, j + 1, k)>> :
             <<a, i, j, k>> \in
                { q \in (1..2) \X (1..Len(tag)) \X (1..Len(tag)) \X (1..Len(tag)) :
                    /\ q[1] = 2 => tag[1] = "v"
                    /\ q[1] < q[2] /\ q[2] < q[3] /\ q[3] < q[4]
                    /\ tag[q[2]] = "." /\ tag[q[3]] = "."
                    /\ IsNumber(SubSeq(tag, q[1], q[2] - 1))
                    /\ IsNumber(SubSeq(tag, q[2] + 1, q[3] - 1))
                    /\ IsNumber(SubSeq(tag, q[3] + 1, q[4]))
                    /\ q[4] < Len(tag) => tag[q[4] + 1] \notin Digits } }

\* str(n) has no leading zero.
IsDecimal(s) == IsNumber(s) /\ (Len(s) > 1 => s[1] # "0")

\* version is vA.B.C, nothing before or after, and A, B, C are the numbers a, b, c.
IsVersion(version, a, b, c) ==
    /\ version # <<>>
    /\ version[1] = "v"
    /\ \E r \in ReadAsVersion(version) :
          /\ Len(version) = 3 + Len(r[1]) + Len(r[2]) + Len(r[3])
          /\ IsDecimal(r[1]) /\ IsDecimal(r[2]) /\ IsDecimal(r[3])
          /\ ToInt(r[1]) = a /\ ToInt(r[2]) = b /\ ToInt(r[3]) = c

\* (a1, a2, a3) > (b1, b2, b3) in (major, minor, patch) order.
VersionGreater(a, b) ==
    \/ a[1] > b[1]
    \/ a[1] = b[1] /\ a[2] > b[2]
    \/ a[1] = b[1] /\ a[2] = b[2] /\ a[3] > b[3]

\* C16: under SpecSuggest, for a tag that reads [v]X.Y.Z suggest_next_version
\* returns v(X+1).0.0, vX.(Y+1).0 or vX.Y.(Z+1) for major, minor or patch, which
\* is greater than (X, Y, Z); for no tag or a tag that does not read so it
\* returns v1.0.0, v0.1.0 or v0.0.1.
C16_NextVersion ==
    (rl_pc = "suggested" /\ rl_release_type \in {Major, Minor, Patch}) =>
        LET reads == ReadAsVersion(rl_latest_tag)
        IN  IF reads = {}
            THEN /\ rl_release_type = Major => IsVersion(rl_version, 1, 0, 0)
                 /\ rl_release_type = Minor => IsVersion(rl_version, 0, 1, 0)
                 /\ rl_release_type = Patch => IsVersion(rl_version, 0, 0, 1)
            ELSE \A r \in reads :
                    LET x == ToInt(r[1])
                        y == ToInt(r[2])
                        z == ToInt(r[3])
                        next == IF rl_release_type = Major THEN <<x + 1, 0, 0>>
                                ELSE IF rl_release_type = Minor THEN <<x, y + 1, 0>>
                                ELSE <<x, y, z + 1>>
                    IN  /\ IsVersion(rl_version, next[1], next[2], next[3])
                        /\ VersionGreater(next, <<x, y, z>>)

\* C16 happens: the minor release after v9.9.9 is v9.10.0.
C16_Witness ==
    /\ rl_pc = "suggested"
    /\ rl_latest_tag = <<"v", "9", ".", "9", ".", "9">>
    /\ rl_release_type = Minor
    /\ rl_version = <<"v", "9", ".", "1", "0", ".", "0">>

\* The order of the steps as the text states it.
StatedOrder ==
    <<"git cliff --tag VERSION -o CHANGELOG.md", "git add CHANGELOG.md",
      "git commit -m 'chore(release): update changelog for VERSION'",
      "git tag VERSION", "git push", "git push --tags">>

\* C17: under SpecRelease the commands run only after the user confirmed, in
\* the stated order and for the suggested version; git tag runs only after a
\* git commit that succeeded; a failing command is the last one run and the
\* script exits with status 1.
C17_StepsInOrderStopAtFailure ==
    /\ Len(rl_log) <= Len(StatedOrder)
    /\ rl_log # <<>> => (rl_confirm # <<>> /\ Lower(Strip(rl_confirm[1])) = Yes)
    /\ \A k \in 1..Len(rl_log) :
          /\ rl_log[k].cmd = StatedOrder[k]
          /\ rl_log[k].version = rl_version
          /\ rl_log[k].cmd = "git tag VERSION" =>
                \E j \in 1..(k - 1) :
                    /\ rl_log[j].cmd = StatedOrder[3]
                    /\ rl_log[j].outcome = "ok"
          /\ rl_log[k].outcome # "ok" =>
                /\ k = Len(rl_log)
                /\ rl_pc = "exited"
                /\ rl_exit = <<1>>

\* C17 happens: git tag failed after the changelog commit, and the script has
\* exited with status 1 without pushing.
C17_Witness ==
    /\ rl_pc = "exited"
    /\ Len(rl_log) = 4
    /\ rl_log[3].outcome = "ok"
    /\ rl_log[4].outcome = "error"
    /\ rl_exit = <<1>>

\* C18: under SpecRelease an answer to the confirmation prompt that is not
\* 'yes' after trimming and lower-casing ends the script with status 0 and no
\* command run; the release-type prompt comes again after every answer that is
\* not major, minor or patch, and the script goes on with the one that is.
C18_NoReleaseWithoutYes ==
    /\ (rl_confirm # <<>> /\ Lower(Strip(rl_confirm[1])) # Yes) =>
            /\ rl_log = <<>>
            /\ rl_pc = "exited"
            /\ rl_exit = <<0>>
    /\ \A k \in 1..Len(rl_answers) :
            Lower(Strip(rl_answers[k])) \notin {Major, Minor, Patch} =>
                \/ k < Len(rl_answers)
                \/ rl_pc = "release_type"
                \/ rl_pc = "exited" /\ rl_exit = <<1>> /\ rl_confirm = <<>>
    /\ (rl_pc \in {"confirm", "release", "returned"} \/ rl_confirm # <<>>) =>
            /\ rl_answers # <<>>
            /\ rl_release_type = Lower(Strip(rl_answers[Len(rl_answers)]))
            /\ rl_release_type \in {Major, Minor, Patch}

\* C18 happens: after two answers that are no release type and one that is, the
\* user answered the confirmation with something other than yes, and the script
\* has exited with status 0.
C18_Witness ==
    /\ rl_pc = "exited"
    /\ Len(rl_answers) = 3
    /\ rl_confirm = <<<<"y">>>>
    /\ rl_log = <<>>
    /\ rl_exit = <<0>>

(***************************************************************************)
(* Claims about extract_input_info                                         *)
(***************************************************************************)

\* C19: under SpecInputs the dictionary extract_input_info returned has, for
\* every line pkgs-<name>.url = "github:nixos/nixpkgs/<branch>" of flake.nix, the
\* entry pkgs-<name> with that branch and the rev the metadata locks it at (None
\* if absent), and no entry that comes from a line of another form.
C19_OneEntryPerInputLine ==
    fi_pc = "returned" =>
        /\ \A i \in 1..Len(fi_lines) :
              fi_lines[i].kind = "input" =>
                 LET key == PkgsDash \o fi_lines[i].name
                 IN  /\ key \in DOMAIN fi_info
                     /\ fi_info[key].branch \in
                            { fi_lines[j].branch : j \in { j \in 1..Len(fi_lines) :
                                 fi_lines[j].kind = "input" /\ fi_lines[j].name = fi_lines[i].name } }
                     /\ fi_info[key].locked_rev =
                            IF fi_metadata.outcome = "ok" /\ key \in DOMAIN fi_metadata.locks
                            THEN fi_metadata.locks[key] ELSE None
        /\ \A key \in DOMAIN fi_info :
              \E i \in 1..Len(fi_lines) :
                  fi_lines[i].kind = "input" /\ key = PkgsDash \o fi_lines[i].name

====
